---- MODULE Spec2Model ----
(***************************************************************************)
(* Model of the filament-sensor event core of Happy Hare                   *)
(* (extras/mmu_sensors.py): the MmuRunoutHelper presence state machine,    *)
(* its dispatch guard (min_event_systime) and the deferred response        *)
(* handlers run by the reactor.                                            *)
(* The ADC sensors built on it (MmuAdcSensorBase, MmuHallSensor,           *)
(* MmuAdcSwitchSensor) add the endstop contract home_start / home_wait.    *)
(*                                                                         *)
(* Time is counted in ticks of 0.5 s of reactor.monotonic().               *)
(***************************************************************************)
EXTENDS Integers, Naturals, Sequences, FiniteSets, TLC

(* ---------------------------- bounds ----------------------------------- *)
\* last reactor time the model explores (ticks)
MaxTime == 5
\* most deferred callbacks registered and unfinished at once
MaxPending == 2
\* latest reactor time at which klippy:ready fires (ticks)
MaxReadyTime == 1
\* most home_start calls on one sensor
MaxHomes == 2
\* ADC samples 0..RawMax stand for the readings 0.0 .. 1.0
RawMax == 4
\* the raw sample 1.0; one unit stands for the 0.00001 of the clamp
AdcFull == 4
\* samples of one endstop whose smoothed diameter is followed
MaxSmooth == 2
\* the longest drying time TIME asks for, in minutes
MaxDryTime == 2

(* ------------------------ program constants ---------------------------- *)
\* warm-up after klippy:ready: 2.0 s
WarmUp == 4
\* MmuSensors event_delay default: 0.5 s
EventDelay == 1
\* reactor.NEVER: later than every time the model reaches
NEVER == MaxTime + WarmUp + EventDelay + 100
\* klippy:ready has not fired yet
NotReady == -1
\* Python None where a time is expected (_last_trigger_time)
NoTime == -1
\* Python None where a completion is expected (_trigger_completion)
NoCompletion == 0
\* adc_debounce_time 0.025 s: for timestamps that are whole ticks,
\* read_time - last_debouncetime >= 0.025 s exactly when they differ by a tick
AdcDebounceTicks == 1
\* MmuAdcSwitchSensor.pullup, in the unit of a_min and a_max
Pullup == 1
\* no sample read yet
NoSample == -2
\* hall_cal_dia1 and hall_cal_dia2 (1.5 and 2.0 mm), in hundredths of a mm
DefaultDia1 == 150
DefaultDia2 == 200
\* the fallback diameter 1.75 mm
NominalDiameter == 175
\* Python None for a temperature (TEMP not given, _drying_temp)
NoTemp == -1
\* Python None for a humidity (no sensor or no humidity chip)
NoHumidity == -1
\* reactor.NOW
NOW == 0
\* MmuEnvironmentManager.CHECK_INTERVAL (60 s) in ticks: the dryer's tick is
\* one minute
CheckInterval == 1
\* heater_default_dry_temp
DefaultDryTemp == 45
\* heater_default_humidity
DefaultHumidity == 1
\* MmuHallSensor._trigger_threshold (a_min / 10000), in sample units
TriggerThreshold == 0
\* values one hall pin reports, in sample units
HallSamples == {0, 1}
\* Python None for _last_extreme (an abs() is never negative)
NoExtreme == -1
\* the mapped value 1.0 in units of 1/RawMax
One == RawMax
\* the tension and compression switch sensors
SyncSensors == {"tension", "compression"}
\* no mmu:sync_feedback event sent yet
NoFeedback == [source |-> "none", time |-> NoTime, value |-> 0]

Kinds == {"insert", "remove", "runout", "clog", "tangle"}
InjectKinds == {"clog", "tangle"}
PauseKinds == {"runout", "clog", "tangle"}

\* responses registered by a presence edge
EdgeKinds == {"insert", "remove", "runout"}

\* the gcodes dict of one helper: TRUE where gcodes.get(kind) is truthy
\* (a key that is missing, None or "" is FALSE)
GcodeConfigs == [Kinds -> BOOLEAN]

Gcodes(insert, remove, runout, clog, tangle) ==
    [k \in Kinds |-> CASE k = "insert" -> insert
                        [] k = "remove" -> remove
                        [] k = "runout" -> runout
                        [] k = "clog"   -> clog
                        [] k = "tangle" -> tangle]

\* the helpers the sensor classes construct: <<gcodes, insert_remove_in_print>>
SensorConfigs ==
    { <<Gcodes(TRUE,  TRUE,  TRUE,  FALSE, FALSE), TRUE>>,   \* pre-gate
      <<Gcodes(FALSE, FALSE, TRUE,  FALSE, FALSE), FALSE>>,  \* gate, gear
      <<Gcodes(TRUE,  FALSE, TRUE,  FALSE, FALSE), FALSE>>,  \* extruder, hall endstop
      <<Gcodes(FALSE, FALSE, FALSE, FALSE, FALSE), FALSE>>,  \* toolhead, tension, compression
      <<Gcodes(FALSE, FALSE, FALSE, TRUE,  TRUE),  FALSE>> } \* proportional

VARIABLES
    gcodes,                 \* self.gcodes (immutable after construction)
    insert_remove_in_print, \* self.insert_remove_in_print
    min_event_systime,      \* self.min_event_systime
    filament_present,       \* self.filament_present
    sensor_enabled,         \* self.sensor_enabled
    runout_suspended,       \* self.runout_suspended: "None" | "True" | "False"
    now,                    \* reactor.monotonic()
    ready_time,             \* reactor time of klippy:ready, NotReady before
    is_printing,            \* print_stats state == "printing"
    pending,                \* callbacks given to reactor.register_callback, unfinished
    last_op,                \* the operation that produced this state
    sensor_type,            \* class feeding the helper: "switch_pin" | "hall" | "adc_switch"
    a_min,                  \* MmuAdcSwitchSensor.a_min, MmuHallSensor.a_min
    a_max,                  \* MmuAdcSwitchSensor.a_max, MmuHallSensor.a_max
    build,                  \* history: the latest construction asked for and how it ended
    homing,                 \* MmuAdcSensorBase._homing
    triggered,              \* MmuAdcSensorBase._triggered
    trigger_completion,     \* MmuAdcSensorBase._trigger_completion: id or NoCompletion
    last_trigger_time,      \* MmuAdcSensorBase._last_trigger_time or NoTime
    completions,            \* per completion made by home_start: calls of complete()
    trigger_req,            \* completion whose fulfilment recorded last_trigger_time
    val1,                   \* MmuHallSensor._val1
    val2,                   \* MmuHallSensor._val2
    hall_present,           \* MmuHallSensor.present
    last_button,            \* MmuAdcSwitchSensor.last_button: "None" | "True" | "False"
    last_pressed,           \* MmuAdcSwitchSensor.last_pressed: "None" | "True" | "False"
    last_debouncetime,      \* MmuAdcSwitchSensor.last_debouncetime
    sample,                 \* history: the latest raw sample of the switch sensor, or NoSample
    cand,                   \* history: the run of equal candidates the switch sensor has seen
    req,                    \* history: the homing request of the latest home_start
    button_handler,         \* MmuRunoutHelper.button_handler is set (configuration)
    button_handler_suspended, \* MmuRunoutHelper.button_handler_suspended
    sync_exists,            \* per sync sensor: lookup_object finds it (configuration)
    sync_enabled,           \* per sync sensor: runout_helper.sensor_enabled
    sync_present,           \* per sync sensor: runout_helper.filament_present
    sync_suspended,         \* per sync sensor: runout_helper.button_handler_suspended
    sync_runout_suspended,  \* per sync sensor: runout_helper.runout_suspended
    sync_min_event_systime, \* per sync sensor: runout_helper.min_event_systime
    max_tension,            \* sync_feedback_analog_max_tension (configuration)
    max_compression,        \* sync_feedback_analog_max_compression (configuration)
    neutral_point,          \* MmuProportionalSensor._neutral_point, in units of 1/(2 RawMax)
    value_raw,              \* MmuProportionalSensor.value_raw
    value,                  \* MmuProportionalSensor.value, in units of 1/RawMax
    last_extreme,           \* MmuProportionalSensor._last_extreme or NoExtreme
    feedback,               \* the latest mmu:sync_feedback event sent, or NoFeedback
    stamps,                 \* per registered callback: the eventtime its lambda holds
    script,                 \* history: the latest command handed to gcode.run_script
    latest_reading,         \* history: the eventtime of the latest note_filament_present
    hall_endstop,           \* MmuHallEndstop: calibration, the two readings and the diameter
    dryer                   \* MmuEnvironmentManager: the drying cycle, its timer, the heater target

\* endstop state of MmuAdcSensorBase
homing_vars == <<homing, triggered, trigger_completion, last_trigger_time,
                 completions, trigger_req>>
\* classifier state of MmuHallSensor and MmuAdcSwitchSensor
hall_vars == <<val1, val2, hall_present>>
switch_vars == <<last_button, last_pressed, last_debouncetime, cand, sample>>
\* calibration range of an analog sensor
range_vars == <<a_min, a_max, build>>
adc_vars == <<sensor_type, range_vars, homing_vars, hall_vars, switch_vars, req>>
\* button handler of the helper
button_vars == <<button_handler, button_handler_suspended>>

\* the tension and compression switch sensors
sync_vars == <<sync_exists, sync_enabled, sync_present, sync_suspended,
               sync_runout_suspended, sync_min_event_systime>>
\* the proportional sensor
prop_vars == <<max_tension, max_compression, neutral_point, value_raw, value,
               last_extreme>>
\* the sources of mmu:sync_feedback and the event
feedback_vars == <<sync_vars, prop_vars, feedback>>

\* everything the plain helper operations leave alone
\* the eventtime of the deferred callbacks, followed in SpecStamp only
stamp_vars == <<stamps, script, latest_reading>>

\* the dual-coil endstop
endstop_vars == <<hall_endstop>>

\* the filament dryer
dryer_vars == <<dryer>>

ext_vars == <<adc_vars, button_vars, feedback_vars, stamp_vars, endstop_vars,
              dryer_vars>>

vars == <<gcodes, insert_remove_in_print, min_event_systime, filament_present,
          sensor_enabled, runout_suspended, now, ready_time, is_printing,
          pending, last_op, ext_vars>>

config == <<gcodes, insert_remove_in_print>>

\* History of the last operation.  op: its name ("other" for the operations
\* that neither report an event nor run a response); present: the reading passed
\* to note_filament_present; edge: the reading differed from filament_present;
\* passed: eventtime >= min_event_systime and sensor_enabled held on entry;
\* kind: the response it registered or ran ("none" if none); paused: the
\* handler called send_pause_command; ok: run_script did not raise, home_wait
\* and home_start did not raise; time: the timestamp of the sample or of
\* home_start, the time home_wait returned; handler: the call invoked the
\* button handler; seen: the helper's filament_present as the handler saw it
\* ("None" when it was not invoked); published: the step sent an
\* mmu:sync_feedback event
NoOp == [op |-> "init", present |-> FALSE, edge |-> FALSE, passed |-> FALSE,
         kind |-> "none", paused |-> FALSE, ok |-> TRUE, time |-> NoTime,
         handler |-> FALSE, seen |-> "None", published |-> FALSE]

\* no command run yet.  kind: the response; eventtime: its EVENTTIME
\* parameter; at: the reactor time at which the handler ran
NoScript == [kind |-> "none", eventtime |-> NoTime, at |-> NoTime, origin |-> NoTime, latest |-> NoTime]

\* no sample seen yet.  value: the candidate of the latest sample; since: the
\* timestamp of the first sample of the uninterrupted run of that candidate;
\* accepted: the value accepted last
NoCand == [value |-> "None", since |-> NoTime, accepted |-> "None"]

\* no homing request.  open: home_start was called and home_wait has not
\* been called since; immediate: home_start fulfilled it; print_time: the
\* start time of an immediately fulfilled request; first_match: timestamp of
\* the first reading since a home_start that did not fulfil whose presence
\* equalled the target; replaced: it was started while an earlier request
\* was active and unfulfilled
NoReq == [open |-> FALSE, immediate |-> FALSE, print_time |-> NoTime,
          first_match |-> NoTime, replaced |-> FALSE]

Op(name) == [NoOp EXCEPT !.op = name]

(* ----------------------- pure parts of the code ------------------------ *)

\* a Python bool where None is also possible
PyBool(b) == IF b THEN "True" ELSE "False"

\* variant of InvokesHandler placed after the early return and the guard test
InvokesHandler_AfterGuard(handler, suspended, edge, passed) ==
    handler /\ ~suspended /\ edge /\ passed

\* note_filament_present: "if self.button_handler and not
\* self.button_handler_suspended", tested before the early return for an
\* unchanged value and before the guard
InvokesHandler(handler, suspended, edge, passed) == handler /\ ~suspended

\* variant of IsEdge without the early return for an unchanged value
IsEdge_Always(prev, is_present) == TRUE

\* note_filament_present: "if prev_filament_present == is_filament_present: return"
IsEdge(prev, is_present) == prev # is_present

\* variant of ShouldProcess that needs the timestamp to be later than the guard
ShouldProcess_Strict(eventtime, min_time, enabled) ==
    eventtime > min_time /\ enabled

\* variant of ShouldProcess that forgets the sensor_enabled test
ShouldProcess_IgnoresEnabled(eventtime, min_time, enabled) ==
    eventtime >= min_time

\* note_filament_present: "Don't handle too early or if disabled"
ShouldProcess(eventtime, min_time, enabled) ==
    eventtime >= min_time /\ enabled

\* variant of DispatchKind that tests "not self.runout_suspended" instead of
\* "self.runout_suspended is False"
DispatchKind_NotSuspended(present, printing, suspended, g, irip) ==
    IF present /\ g["insert"]
    THEN IF ~printing \/ (printing /\ irip) THEN "insert" ELSE "none"
    ELSE IF printing /\ suspended # "True" /\ g["runout"] THEN "runout"
         ELSE IF g["remove"] /\ (~printing \/ irip) THEN "remove"
         ELSE "none"

\* _process_state_change: the response the edge registers, "none" if none
DispatchKind(present, printing, suspended, g, irip) ==
    IF present /\ g["insert"]
    THEN IF ~printing \/ (printing /\ irip) THEN "insert" ELSE "none"
    ELSE IF printing /\ suspended = "False" /\ g["runout"] THEN "runout"
         ELSE IF g["remove"] /\ (~printing \/ irip) THEN "remove"
         ELSE "none"

\* variant of ExecGcodeMin without the try/except: a raising command leaves
\* the guard as it was
ExecGcodeMin_Propagates(ok, cur_min, t, delay) ==
    IF ok THEN t + delay ELSE cur_min

\* _exec_gcode: min_event_systime after the command ran (ok) or raised (~ok)
ExecGcodeMin(ok, cur_min, t, delay) ==
    t + delay

\* variant of HandlerPauses in which no handler asks for a pause
HandlerPauses_Never(kind) == FALSE

\* _runout_event_handler sends the pause command, the other handlers do not
HandlerPauses(kind) == kind \in PauseKinds

\* variant of Callback whose handler runs inside the registering call
Callback_Inline(kind) == [kind |-> kind, running |-> TRUE, paused |-> FALSE]

\* the callback reactor.register_callback keeps: which handler it calls
\* (the eventtime the lambda captures is only formatted into the command);
\* running once the handler has started and is inside gcode.run_script;
\* paused: the handler has called send_pause_command
Callback(kind) == [kind |-> kind, running |-> FALSE, paused |-> FALSE]

\* the reactor drops a callback once its handler has returned
RemoveAt(s, i) == [j \in 1..(Len(s) - 1) |-> IF j < i THEN s[j] ELSE s[j + 1]]

Registered == {i \in 1..Len(pending) : ~pending[i].running}
Running == {i \in 1..Len(pending) : pending[i].running}

\* the reactor runs callbacks in the order they were registered, and
\* gcode.run_script serves its callers in the order they arrived
Min(S) == CHOOSE x \in S : \A y \in S : x <= y

\* MmuEnvironmentManager after __init__ and reinit(): not drying, the
\* periodic timer registered without a wake time, the heater at target 0
NoDryer ==
    [drying |-> FALSE, drying_temp |-> NoTemp, drying_time |-> NoTime,
     drying_humidity_target |-> NoHumidity, drying_end_time |-> NoTime,
     timer |-> NEVER, heater_target |-> 0]

(* ------------------------------ Init ----------------------------------- *)
InitHelperWith(configs) ==
    /\ \E c \in configs : /\ gcodes = c[1]
                                /\ insert_remove_in_print = c[2]
    /\ min_event_systime = NEVER
    /\ filament_present = FALSE
    /\ sensor_enabled = TRUE
    /\ runout_suspended = "None"
    /\ now = 0
    /\ ready_time = NotReady
    /\ is_printing = FALSE
    /\ pending = <<>>
    /\ last_op = NoOp
    /\ stamps = <<>>
    /\ script = NoScript
    /\ latest_reading = NoTime
    /\ dryer = NoDryer

InitHelper == InitHelperWith(SensorConfigs)

\* the helpers of the two sync sensors: the fields __init__ sets on lines 76-80
SyncState ==
    [s \in SyncSensors |->
        [filament_present |-> sync_present[s],
         sensor_enabled |-> sync_enabled[s],
         runout_suspended |-> sync_runout_suspended[s],
         min_event_systime |-> sync_min_event_systime[s]]]

\* no sync-feedback sensor configured: MmuSensors.__init__ creates none
\* without sync_feedback_tension_pin / _compression_pin / _analog_pin
InitFeedback ==
    /\ sync_exists = [s \in SyncSensors |-> FALSE]
    /\ sync_enabled = [s \in SyncSensors |-> TRUE]
    /\ sync_present = [s \in SyncSensors |-> FALSE]
    /\ sync_suspended = [s \in SyncSensors |-> FALSE]
    /\ sync_runout_suspended = [s \in SyncSensors |-> "None"]
    /\ sync_min_event_systime = [s \in SyncSensors |-> NEVER]
    /\ max_tension = RawMax
    /\ max_compression = 0
    /\ neutral_point = RawMax
    /\ value_raw = 0
    /\ value = 0
    /\ last_extreme = NoExtreme
    /\ feedback = NoFeedback

\* 3 ^ k
Pow3(k) == IF k = 0 THEN 1 ELSE IF k = 1 THEN 3 ELSE IF k = 2 THEN 9 ELSE IF k = 3 THEN 27 ELSE 81

\* the calibrations of an endstop: rawdia1 and rawdia2 in sample units, equal
\* ones (a zero span) included, and hall_min_diameter in hundredths of a mm
EndstopConfigs ==
    [dia1 : {DefaultDia1}, dia2 : {DefaultDia2}, rawdia1 : {0, 1},
     rawdia2 : {0, 1, 2}, hall_min_diameter : {100, NominalDiameter, 200}]

\* MmuHallEndstop.__init__: the state fields.  diameter is num / 3 ^ k
\* hundredths of a mm
NewEndstop(c) ==
    [dia1 |-> c.dia1, dia2 |-> c.dia2, rawdia1 |-> c.rawdia1,
     rawdia2 |-> c.rawdia2, hall_min_diameter |-> c.hall_min_diameter,
     lastFilamentWidthReading |-> 0, lastFilamentWidthReading2 |-> 0,
     diameter |-> [num |-> 0, k |-> 0], fault |-> FALSE]

\* variant of OnZeroSpan without the except clause: the ZeroDivisionError
\* leaves the callback
OnZeroSpan_Raises(e) == [e EXCEPT !.fault = TRUE]

\* "except ZeroDivisionError: self.diameter = 1.75"
OnZeroSpan(e) == [e EXCEPT !.diameter = [num |-> NominalDiameter, k |-> 0]]

\* MmuHallEndstop._calc_diameter.  With the calibrations of EndstopConfigs
\* slope * (val_sum - rawdia1) is a whole number of hundredths, so round(.., 2)
\* changes nothing; the smoothing (2.0 * diameter + diameter_new) / 3 adds a
\* factor 3 to the denominator
CalcDiameter(e) ==
    LET val_sum == e.lastFilamentWidthReading + e.lastFilamentWidthReading2
        span == e.rawdia2 - e.rawdia1
        diameter_new == ((e.dia2 - e.dia1) * (val_sum - e.rawdia1)) \div span
                        + e.dia1
    IN  IF span = 0
        THEN OnZeroSpan(e)
        ELSE [e EXCEPT !.diameter =
                 [num |-> 2 * e.diameter.num + diameter_new * Pow3(e.diameter.k),
                  k |-> e.diameter.k + 1]]

\* _check_trigger: "is_present = self.diameter > self.hall_min_diameter"
EndstopPresent(e) == e.diameter.num > e.hall_min_diameter * Pow3(e.diameter.k)

\* no endstop configured: the default calibration, never sampled
NoEndstop ==
    NewEndstop([dia1 |-> DefaultDia1, dia2 |-> DefaultDia2, rawdia1 |-> 0,
                rawdia2 |-> 1, hall_min_diameter |-> 100])

\* MmuAdcSensorBase.__init__, MmuHallSensor.__init__, MmuAdcSwitchSensor.__init__
InitClassifier ==
    /\ homing = FALSE
    /\ triggered = FALSE
    /\ trigger_completion = NoCompletion
    /\ last_trigger_time = NoTime
    /\ completions = <<>>
    /\ trigger_req = NoCompletion
    /\ val1 = 0
    /\ val2 = 0
    /\ hall_present = FALSE
    /\ last_button = "None"
    /\ last_pressed = "None"
    /\ last_debouncetime = 0
    /\ cand = NoCand
    /\ sample = NoSample
    /\ req = NoReq

\* no construction asked for
NoBuild == [lo |-> 0, hi |-> 0, outcome |-> "none"]

\* an analog sensor constructed with the range (0, RawMax), or a sensor
\* without a range
InitAdc ==
    /\ InitClassifier
    /\ a_min = 0
    /\ a_max = RawMax
    /\ build = NoBuild
    /\ hall_endstop = NoEndstop

\* a helper behind a plain switch pin (_create_simple_switch_sensor): the
\* buttons code calls note_filament_present directly
Init ==
    /\ InitHelper
    /\ sensor_type = "switch_pin"
    /\ InitAdc
    /\ button_handler = FALSE
    /\ button_handler_suspended = FALSE
    /\ InitFeedback

(* ----------------------------- actions --------------------------------- *)

\* the reactor clock advances
Tick ==
    /\ now < MaxTime
    /\ now' = now + 1
    /\ last_op' = Op("other")
    /\ UNCHANGED <<config, min_event_systime, filament_present, sensor_enabled,
                   runout_suspended, ready_time, is_printing, pending>>
    /\ UNCHANGED ext_vars

\* the print-activity oracle changes its answer
SetPrinting(b) ==
    /\ is_printing # b
    /\ is_printing' = b
    /\ last_op' = Op("other")
    /\ UNCHANGED <<config, min_event_systime, filament_present, sensor_enabled,
                   runout_suspended, now, ready_time, pending>>
    /\ UNCHANGED ext_vars

\* MmuRunoutHelper._handle_ready
HandleReady ==
    /\ ready_time = NotReady
    /\ now <= MaxReadyTime
    /\ ready_time' = now
    /\ min_event_systime' = now + WarmUp
    /\ last_op' = Op("other")
    /\ UNCHANGED <<config, filament_present, sensor_enabled, runout_suspended,
                   now, is_printing, pending>>
    /\ UNCHANGED ext_vars

\* MmuRunoutHelper.note_filament_present together with _process_state_change.
\* The button handler called on lines 147-148 only reads the helpers and
\* publishes mmu:sync_feedback; it assigns no field of the helper.
NoteKind(eventtime, is_present) ==
    IF IsEdge(filament_present, is_present)
       /\ ShouldProcess(eventtime, min_event_systime, sensor_enabled)
    THEN DispatchKind(is_present, is_printing, runout_suspended,
                      gcodes, insert_remove_in_print)
    ELSE "none"

\* what the call does to the helper
NoteEffect(eventtime, is_present) ==
    LET kind == NoteKind(eventtime, is_present)
    IN  /\ kind # "none" => Len(pending) < MaxPending
        /\ filament_present' = is_present
        /\ IF kind # "none"
           THEN /\ min_event_systime' = NEVER
                /\ pending' = Append(pending, Callback(kind))
           ELSE UNCHANGED <<min_event_systime, pending>>

\* the call invokes the button handler (after line 144 has stored the value)
NoteInvokes(eventtime, is_present) ==
    InvokesHandler(button_handler, button_handler_suspended,
                   filament_present # is_present,
                   ShouldProcess(eventtime, min_event_systime, sensor_enabled))

\* the record of the call kept in last_op
NoteRecord(name, eventtime, is_present) ==
    [Op(name) EXCEPT
        !.present = is_present,
        !.edge = (filament_present # is_present),
        !.passed = ShouldProcess(eventtime, min_event_systime, sensor_enabled),
        !.kind = NoteKind(eventtime, is_present),
        !.time = eventtime,
        !.handler = NoteInvokes(eventtime, is_present),
        !.seen = IF NoteInvokes(eventtime, is_present)
                 THEN PyBool(filament_present') ELSE "None"]

\* the call's effect on the helper and the reactor
NoteCall(eventtime, is_present) ==
    /\ NoteEffect(eventtime, is_present)
    /\ last_op' = NoteRecord("note_filament_present", eventtime, is_present)
    /\ UNCHANGED <<config, sensor_enabled, runout_suspended, now,
                   ready_time, is_printing>>

NoteFilamentPresent(eventtime, is_present) ==
    /\ NoteCall(eventtime, is_present)
    /\ UNCHANGED ext_vars

\* MmuRunoutHelper.note_clog_tangle
NoteClogTangleCall(event_type) ==
    /\ Len(pending) < MaxPending
    /\ min_event_systime' = NEVER
    /\ pending' = Append(pending, Callback(event_type))
    /\ last_op' = [Op("note_clog_tangle") EXCEPT !.kind = event_type]
    /\ UNCHANGED <<config, filament_present, sensor_enabled, runout_suspended,
                   now, ready_time, is_printing>>

NoteClogTangle(event_type) ==
    /\ NoteClogTangleCall(event_type)
    /\ UNCHANGED ext_vars

\* MmuRunoutHelper.enable_runout
EnableRunout(restore) ==
    /\ runout_suspended' = IF restore THEN "False" ELSE "True"
    /\ last_op' = Op("other")
    /\ UNCHANGED <<config, min_event_systime, filament_present, sensor_enabled,
                   now, ready_time, is_printing, pending>>
    /\ UNCHANGED ext_vars

\* variant of PresenceAfterSet in which a disabled sensor forgets its filament
PresenceAfterSet_Clears(enable, present) == enable /\ present

\* cmd_SET_FILAMENT_SENSOR assigns sensor_enabled and nothing else: the
\* stored presence stays
PresenceAfterSet(enable, present) == present

\* variant of CmdSetFilamentSensor in which re-enabling the sensor dispatches
\* the insert response for filament that arrived while it was disabled
CmdSetFilamentSensor_Redispatches(enable) ==
    /\ sensor_enabled' = enable
    /\ filament_present' = filament_present
    /\ IF enable /\ ~sensor_enabled /\ filament_present /\ gcodes["insert"]
          /\ Len(pending) < MaxPending
       THEN /\ min_event_systime' = NEVER
            /\ pending' = Append(pending, Callback("insert"))
       ELSE UNCHANGED <<min_event_systime, pending>>
    /\ last_op' = Op("other")
    /\ UNCHANGED <<config, runout_suspended, now, ready_time, is_printing>>
    /\ UNCHANGED ext_vars

\* MmuRunoutHelper.cmd_SET_FILAMENT_SENSOR
CmdSetFilamentSensor(enable) ==
    /\ sensor_enabled' = enable
    /\ filament_present' = PresenceAfterSet(enable, filament_present)
    /\ last_op' = Op("other")
    /\ UNCHANGED <<config, min_event_systime,
                   runout_suspended, now, ready_time, is_printing, pending>>
    /\ UNCHANGED ext_vars

\* MmuRunoutHelper.cmd_QUERY_FILAMENT_SENSOR: responds with the stored
\* presence
CmdQueryFilamentSensor ==
    /\ last_op' = [Op("QUERY_FILAMENT_SENSOR") EXCEPT
                       !.present = filament_present]
    /\ UNCHANGED <<config, min_event_systime, filament_present,
                   sensor_enabled, runout_suspended, now, ready_time,
                   is_printing, pending>>
    /\ UNCHANGED ext_vars

\* MmuRunoutHelper.get_status: filament_detected, enabled, runout_suspended
GetStatus ==
    /\ last_op' = [Op("get_status") EXCEPT
                       !.present = filament_present,
                       !.passed = sensor_enabled]
    /\ UNCHANGED <<config, min_event_systime, filament_present,
                   sensor_enabled, runout_suspended, now, ready_time,
                   is_printing, pending>>
    /\ UNCHANGED ext_vars

\* The reactor starts the oldest registered callback: _insert_event_handler,
\* _remove_event_handler or _runout_event_handler up to gcode.run_script.
\* Without a command _exec_gcode finishes at once.
HandlerRun ==
    /\ Registered # {}
    /\ LET i == Min(Registered)
           r == pending[i]
       IN  /\ IF gcodes[r.kind]
              THEN /\ pending' = [pending EXCEPT
                                      ![i].running = TRUE,
                                      ![i].paused = HandlerPauses(r.kind)]
                   /\ UNCHANGED min_event_systime
                   /\ last_op' = [Op("handler_start") EXCEPT
                                     !.kind = r.kind,
                                     !.paused = HandlerPauses(r.kind)]
              ELSE /\ pending' = RemoveAt(pending, i)
                   /\ min_event_systime' =
                          ExecGcodeMin(TRUE, min_event_systime, now, EventDelay)
                   /\ last_op' = [Op("handler_done") EXCEPT
                                     !.kind = r.kind,
                                     !.paused = HandlerPauses(r.kind)]
    /\ UNCHANGED <<config, filament_present, sensor_enabled, runout_suspended,
                   now, ready_time, is_printing>>

HandlerStart ==
    /\ HandlerRun
    /\ UNCHANGED ext_vars

\* gcode.run_script of the oldest running handler returns (ok) or raises
\* (~ok); _exec_gcode then re-arms the guard.
ScriptReturn(ok) ==
    /\ Running # {}
    /\ LET i == Min(Running)
           r == pending[i]
       IN  /\ pending' = RemoveAt(pending, i)
           /\ min_event_systime' =
                  ExecGcodeMin(ok, min_event_systime, now, EventDelay)
           /\ last_op' = [Op("script_done") EXCEPT !.kind = r.kind,
                                                   !.ok = ok]
    /\ UNCHANGED <<config, filament_present, sensor_enabled, runout_suspended,
                   now, ready_time, is_printing>>

ScriptFinish(ok) ==
    /\ ScriptReturn(ok)
    /\ UNCHANGED ext_vars

\* enable_button_feedback(restore)
EnableButtonFeedback(restore) ==
    /\ button_handler_suspended' = ~restore
    /\ last_op' = [Op("enable_button_feedback") EXCEPT !.present = restore]
    /\ UNCHANGED <<config, min_event_systime, filament_present, sensor_enabled,
                   runout_suspended, now, ready_time, is_printing, pending,
                   adc_vars, stamp_vars, endstop_vars, dryer_vars, button_handler, feedback_vars>>

\* a reading is stamped with the reactor time at which it is reported
ReadingTimes == {now}

Next ==
    \/ Tick
    \/ \E b \in BOOLEAN : SetPrinting(b)
    \/ HandleReady
    \/ \E t \in ReadingTimes, p \in BOOLEAN : NoteFilamentPresent(t, p)
    \/ \E k \in InjectKinds : NoteClogTangle(k)
    \/ \E b \in BOOLEAN : EnableRunout(b)
    \/ \E b \in BOOLEAN : CmdSetFilamentSensor(b)
    \/ HandlerStart
    \/ \E ok \in BOOLEAN : ScriptFinish(ok)

Spec == Init /\ [][Next]_vars

\* MmuAdcSensorBase.query_endstop
query_endstop == filament_present

\* a call of query_endstop(print_time)
QueryEndstop ==
    /\ sensor_type \in {"hall", "adc_switch"}
    /\ last_op' = [Op("query_endstop") EXCEPT !.present = query_endstop]
    /\ UNCHANGED <<config, min_event_systime, filament_present,
                   sensor_enabled, runout_suspended, now, ready_time,
                   is_printing, pending>>
    /\ UNCHANGED ext_vars

TypeOK ==
    /\ gcodes \in GcodeConfigs
    /\ insert_remove_in_print \in BOOLEAN
    /\ min_event_systime \in (0..(MaxTime + WarmUp + EventDelay)) \cup {NEVER}
    /\ filament_present \in BOOLEAN
    /\ sensor_enabled \in BOOLEAN
    /\ runout_suspended \in {"None", "True", "False"}
    /\ now \in 0..MaxTime
    /\ ready_time \in {NotReady} \cup (0..MaxTime)
    /\ is_printing \in BOOLEAN
    /\ Len(pending) <= MaxPending
    /\ \A i \in 1..Len(pending) : pending[i].kind \in Kinds

(* ==================== helper with a button handler ===================== *)

\* a switch sensor whose helper may have been given a button_handler
InitButton ==
    /\ InitHelper
    /\ sensor_type = "switch_pin"
    /\ InitAdc
    /\ button_handler \in BOOLEAN
    /\ button_handler_suspended = FALSE
    /\ InitFeedback

NextButton ==
    \/ Tick
    \/ \E b \in BOOLEAN : SetPrinting(b)
    \/ HandleReady
    \/ \E t \in ReadingTimes, p \in BOOLEAN : NoteFilamentPresent(t, p)
    \/ \E b \in BOOLEAN : EnableRunout(b)
    \/ \E b \in BOOLEAN : CmdSetFilamentSensor(b)
    \/ \E b \in BOOLEAN : EnableButtonFeedback(b)
    \/ HandlerStart
    \/ \E ok \in BOOLEAN : ScriptFinish(ok)

SpecButton == InitButton /\ [][NextButton]_vars

(* ============ ADC sensors as endstops: home_start / home_wait =========== *)

\* variant of AfterFulfil that leaves the fulfilled completion in place
AfterFulfil_Keeps(completion) == completion

\* "self._trigger_completion = None" after complete(True) in a callback
AfterFulfil(completion) == NoCompletion

\* variant of HomeStartCompletion that keeps a completion still in place
HomeStartCompletion_KeepsActive(old, fresh) ==
    IF old # NoCompletion THEN old ELSE fresh

\* home_start: "self._trigger_completion = self.reactor.completion()"
HomeStartCompletion(old, fresh) == fresh

\* variant of HomeWaitHoming that leaves homing active
HomeWaitHoming_Keeps(h) == h

\* home_wait: "self._homing = False"
HomeWaitHoming(h) == FALSE

\* MmuHallSensor: presence from the two pins
HallPresent(v1, v2) == (v1 + v2) > TriggerThreshold

\* variant of MaybeNote that calls the helper only for a button handler
MaybeNote_OnlyWithHandler(read_time, is_present) ==
    IF button_handler
    THEN NoteEffect(read_time, is_present)
    ELSE UNCHANGED <<filament_present, min_event_systime, pending>>

\* variant of MaybeNote that never calls the helper
MaybeNote_Never(read_time, is_present) ==
    UNCHANGED <<filament_present, min_event_systime, pending>>

\* the sensors call the helper only "if button_handler or present != filament_present"
MaybeNote(read_time, is_present) ==
    IF button_handler \/ is_present # filament_present
    THEN NoteEffect(read_time, is_present)
    ELSE UNCHANGED <<filament_present, min_event_systime, pending>>

\* "if self._homing: if present == self._triggered: if self._trigger_completion
\* is not None: ..." of the callbacks
Fulfils(is_present) ==
    homing /\ is_present = triggered /\ trigger_completion # NoCompletion

CheckTrigger(read_time, is_present) ==
    /\ IF Fulfils(is_present)
       THEN /\ last_trigger_time' = read_time
            /\ completions' = [completions EXCEPT ![trigger_completion] = @ + 1]
            /\ trigger_req' = trigger_completion
            /\ trigger_completion' = AfterFulfil(trigger_completion)
       ELSE UNCHANGED <<last_trigger_time, completions, trigger_req,
                        trigger_completion>>
    /\ UNCHANGED <<homing, triggered>>

\* history of the request: a reading compared with the target
ReqAfterReading(read_time, is_present) ==
    IF req.open /\ ~req.immediate /\ is_present = triggered
       /\ req.first_match = NoTime
    THEN [req EXCEPT !.first_match = read_time]
    ELSE req

\* the record of a sample kept in last_op: noted: the helper was called
SampleRecord(name, read_time, is_present, noted) ==
    IF noted /\ (button_handler \/ is_present # filament_present)
    THEN NoteRecord(name, read_time, is_present)
    ELSE [Op(name) EXCEPT !.present = is_present, !.time = read_time]

\* MmuHallSensor.adc_callback (primary pin)
HallAdcCallback(read_time, read_value) ==
    LET present == HallPresent(read_value, val2)
    IN  /\ sensor_type = "hall"
        /\ val1' = read_value
        /\ hall_present' = present
        /\ IF present # hall_present
           THEN MaybeNote(read_time, present)
           ELSE UNCHANGED <<filament_present, min_event_systime, pending>>
        /\ CheckTrigger(read_time, present)
        /\ req' = ReqAfterReading(read_time, present)
        /\ last_op' = SampleRecord("adc_callback", read_time, present,
                                   present # hall_present)
        /\ UNCHANGED <<config, sensor_enabled, runout_suspended, now,
                       ready_time, is_printing, sensor_type, range_vars, stamp_vars, endstop_vars, dryer_vars, val2,
                       switch_vars, button_vars,
                       feedback_vars>>

\* variant of Adc2Returns that always goes on
Adc2Returns_Never(h) == FALSE

\* adc2_callback: "if not self._homing: return"
Adc2Returns(h) == ~h

\* MmuHallSensor.adc2_callback (secondary pin): caches the value and returns
\* unless homing
HallAdc2Callback(read_time, read_value) ==
    LET present == HallPresent(val1, read_value)
    IN  /\ sensor_type = "hall"
        /\ val2' = read_value
        /\ IF Adc2Returns(homing)
           THEN /\ last_op' = [Op("adc2_callback") EXCEPT
                                   !.present = hall_present, !.time = read_time]
                /\ UNCHANGED <<filament_present, min_event_systime, pending,
                               hall_present, homing_vars, req>>
           ELSE /\ hall_present' = present
                /\ IF present # hall_present
                   THEN MaybeNote(read_time, present)
                   ELSE UNCHANGED <<filament_present, min_event_systime, pending>>
                /\ CheckTrigger(read_time, present)
                /\ req' = ReqAfterReading(read_time, present)
                /\ last_op' = SampleRecord("adc2_callback", read_time, present,
                                           present # hall_present)
        /\ UNCHANGED <<config, sensor_enabled, runout_suspended, now,
                       ready_time, is_printing, sensor_type, range_vars, stamp_vars, endstop_vars, dryer_vars, val1,
                       switch_vars, button_vars,
                       feedback_vars>>

\* variant of Debounced that accepts at once
Debounced_AtOnce(read_time, debouncetime) == TRUE

\* adc_callback: "(read_time - self.last_debouncetime) >= self.adc_debounce_time"
Debounced(read_time, debouncetime) ==
    (read_time - debouncetime) >= AdcDebounceTicks

\* MmuAdcSwitchSensor.adc_callback from the debounce logic on (lines
\* 541-566); is_present is the sample's resistance compared with
\* [a_min, a_max]
SwitchAdcEffect(read_time, is_present) ==
    LET debouncetime == IF PyBool(is_present) # last_button
                        THEN read_time ELSE last_debouncetime
        accepted == /\ Debounced(read_time, debouncetime)
                    /\ last_button = PyBool(is_present)
                    /\ last_pressed # PyBool(is_present)
    IN  /\ sensor_type = "adc_switch"
        /\ last_debouncetime' = debouncetime
        /\ last_button' = PyBool(is_present)
        /\ cand' = [value |-> PyBool(is_present),
                    since |-> IF cand.value = PyBool(is_present)
                              THEN cand.since ELSE read_time,
                    accepted |-> IF accepted THEN PyBool(is_present)
                                 ELSE cand.accepted]
        /\ IF accepted
           THEN /\ last_pressed' = PyBool(is_present)
                /\ MaybeNote(read_time, is_present)
                /\ CheckTrigger(read_time, is_present)
                /\ req' = ReqAfterReading(read_time, is_present)
                /\ last_op' = [SampleRecord("switch_adc_callback", read_time,
                                            is_present, TRUE)
                               EXCEPT !.edge = TRUE]
           ELSE /\ last_op' = [Op("switch_adc_callback") EXCEPT
                                   !.present = is_present, !.time = read_time]
                /\ UNCHANGED <<last_pressed, filament_present,
                               min_event_systime, pending, homing_vars, req>>
        /\ UNCHANGED <<config, sensor_enabled, runout_suspended, now,
                       ready_time, is_printing, sensor_type, range_vars, stamp_vars, endstop_vars, dryer_vars, hall_vars,
                       button_vars, feedback_vars>>

\* MmuAdcSwitchSensor.adc_callback for a sample already classified
SwitchAdcCallback(read_time, is_present) ==
    /\ SwitchAdcEffect(read_time, is_present)
    /\ UNCHANGED sample

\* MmuAdcSensorBase.home_start
HomeStart(print_time, target) ==
    LET fresh == Len(completions) + 1
        immediate == filament_present = target
    IN  /\ sensor_type \in {"hall", "adc_switch"}
        /\ Len(completions) < MaxHomes
        /\ trigger_completion' = HomeStartCompletion(trigger_completion, fresh)
        /\ homing' = TRUE
        /\ triggered' = target
        /\ last_trigger_time' = IF immediate THEN print_time ELSE NoTime
        /\ trigger_req' = IF immediate THEN trigger_completion' ELSE NoCompletion
        /\ completions' =
               IF immediate
               THEN [Append(completions, 0) EXCEPT ![trigger_completion'] = @ + 1]
               ELSE Append(completions, 0)
        /\ req' = [open |-> TRUE, immediate |-> immediate,
                   print_time |-> IF immediate THEN print_time ELSE NoTime,
                   first_match |-> NoTime,
                   replaced |-> /\ homing /\ req.open
                                /\ trigger_completion # NoCompletion
                                /\ completions[trigger_completion] = 0]
        /\ last_op' = [Op("home_start") EXCEPT !.present = target,
                                               !.time = print_time]
        /\ UNCHANGED <<config, min_event_systime, filament_present,
                       sensor_enabled, runout_suspended, now, ready_time,
                       is_printing, pending, sensor_type, range_vars, stamp_vars, endstop_vars, dryer_vars, hall_vars,
                       switch_vars, button_vars,
                       feedback_vars>>

\* MmuAdcSensorBase.home_wait: returns last_trigger_time or raises
\* "No trigger on ... after full movement"
HomeWait ==
    /\ sensor_type \in {"hall", "adc_switch"}
    /\ homing' = HomeWaitHoming(homing)
    /\ trigger_completion' = NoCompletion
    /\ req' = NoReq
    /\ last_op' = [Op("home_wait") EXCEPT !.ok = (last_trigger_time # NoTime),
                                          !.time = last_trigger_time]
    /\ UNCHANGED <<config, min_event_systime, filament_present,
                   sensor_enabled, runout_suspended, now, ready_time,
                   is_printing, pending, sensor_type, range_vars, stamp_vars, endstop_vars, dryer_vars, triggered,
                   last_trigger_time, completions, trigger_req, hall_vars,
                   switch_vars, button_vars,
                       feedback_vars>>

\* the extruder entry sensor (insert=True, runout=True), one filament is
\* homed to
ExtruderConfig == <<Gcodes(TRUE, FALSE, TRUE, FALSE, FALSE), FALSE>>

\* MmuHallSensor.__init__ or MmuAdcSwitchSensor.__init__ with the extruder
\* sensor's responses and no button handler.  (MmuHallEndstop has the same
\* home_wait, but its home_start raises at its first statement for want of
\* self.reactor, so it never has a request.)
InitHoming ==
    /\ InitHelperWith({ExtruderConfig})
    /\ sensor_type \in {"hall", "adc_switch"}
    /\ InitAdc
    /\ button_handler = FALSE
    /\ button_handler_suspended = FALSE
    /\ InitFeedback

NextHoming ==
    \/ Tick
    \/ HandleReady
    \/ \E v \in HallSamples : HallAdcCallback(now, v)
    \/ \E v \in HallSamples : HallAdc2Callback(now, v)
    \/ \E p \in BOOLEAN : SwitchAdcCallback(now, p)
    \/ \E target \in BOOLEAN : HomeStart(now, target)
    \/ HomeWait
    \/ HandlerStart
    \/ \E ok \in BOOLEAN : ScriptFinish(ok)

SpecHoming == InitHoming /\ [][NextHoming]_vars

TypeOKHoming ==
    /\ sensor_type \in {"hall", "adc_switch"}
    /\ homing \in BOOLEAN /\ triggered \in BOOLEAN
    /\ trigger_completion \in 0..MaxHomes
    /\ last_trigger_time \in {NoTime} \cup (0..MaxTime)
    /\ Len(completions) <= MaxHomes
    /\ trigger_req \in 0..MaxHomes
    /\ val1 \in HallSamples /\ val2 \in HallSamples
    /\ hall_present \in BOOLEAN
    /\ last_button \in {"None", "True", "False"}
    /\ last_pressed \in {"None", "True", "False"}
    /\ last_debouncetime \in 0..MaxTime
    \* the helper's stored presence is the classifier's
    /\ sensor_type = "hall" => filament_present = hall_present
    /\ (sensor_type = "adc_switch" /\ last_pressed # "None")
           => last_pressed = PyBool(filament_present)

(* ============= every operation of one analog sensor =================== *)

\* MmuHallSensor.__init__ with the extruder sensor's responses
InitFrame ==
    /\ InitHelperWith({ExtruderConfig})
    /\ sensor_type = "hall"
    /\ InitAdc
    /\ button_handler = FALSE
    /\ button_handler_suspended = FALSE
    /\ InitFeedback

\* The helper's operations, the commands, the queries, the samples and
\* homing, all within one reactor instant: the guard armed by _handle_ready
\* or _exec_gcode lies ahead of it, so the responses are those of
\* note_clog_tangle, whose handler finds no command and finishes at once.
NextFrame ==
    \/ HandleReady
    \/ \E v \in HallSamples : HallAdcCallback(now, v)
    \/ NoteClogTangle("tangle")
    \/ \E b \in BOOLEAN : EnableRunout(b)
    \/ \E b \in BOOLEAN : EnableButtonFeedback(b)
    \/ \E b \in BOOLEAN : CmdSetFilamentSensor(b)
    \/ CmdQueryFilamentSensor
    \/ GetStatus
    \/ QueryEndstop
    \/ \E target \in BOOLEAN : HomeStart(now, target)
    \/ HomeWait
    \/ HandlerStart

SpecFrame == InitFrame /\ [][NextFrame]_vars

(* ======================= the ADC switch sensor ========================= *)

\* MmuAdcSwitchSensor(insert=True, remove=True): no runout response, not
\* insert_remove_in_print
InsertRemoveConfig == <<Gcodes(TRUE, TRUE, FALSE, FALSE, FALSE), FALSE>>

\* MmuAdcSwitchSensor.__init__ with insert and remove and no button handler
InitSwitch ==
    /\ InitHelperWith({InsertRemoveConfig})
    /\ sensor_type = "adc_switch"
    /\ InitAdc
    /\ button_handler = FALSE
    /\ button_handler_suspended = FALSE
    /\ InitFeedback

NextSwitch ==
    \/ Tick
    \/ \E b \in BOOLEAN : SetPrinting(b)
    \/ HandleReady
    \/ \E p \in BOOLEAN : SwitchAdcCallback(now, p)
    \/ HandlerStart
    \/ \E ok \in BOOLEAN : ScriptFinish(ok)

SpecSwitch == InitSwitch /\ [][NextSwitch]_vars

(* ============ the eventtime a deferred response is run with ============ *)

\* variant of EventTimeArg that passes the time at which the handler runs
EventTimeArg_RunTime(held, run_time) == run_time

\* "lambda reh: self._insert_event_handler(eventtime)" and its like: the
\* handler is called with the eventtime the lambda holds, the reactor's own
\* argument reh (run_time) is dropped, and "%s EVENTTIME=%s" formats it
EventTimeArg(held, run_time) == held

\* the lambda registered by a call made with eventtime.  origin is history:
\* the timestamp of the call that registered it
Lambda(eventtime) == [eventtime |-> eventtime, origin |-> eventtime]

\* note_filament_present with the lambda it registers
StampedNote(eventtime, is_present) ==
    /\ NoteCall(eventtime, is_present)
    /\ stamps' = IF Len(pending') > Len(pending)
                 THEN Append(stamps, Lambda(eventtime)) ELSE stamps
    /\ latest_reading' = eventtime
    /\ UNCHANGED <<script, adc_vars, button_vars, feedback_vars,
                   endstop_vars, dryer_vars>>

\* the reactor runs the oldest registered lambda
StampedHandlerStart ==
    /\ HandlerRun
    /\ LET i == Min(Registered)
       IN  IF gcodes[pending[i].kind]
           THEN /\ script' = [kind |-> pending[i].kind,
                              eventtime |-> EventTimeArg(stamps[i].eventtime, now),
                              at |-> now,
                              origin |-> stamps[i].origin,
                              latest |-> latest_reading]
                /\ UNCHANGED stamps
           ELSE /\ stamps' = RemoveAt(stamps, i)
                /\ UNCHANGED script
    /\ UNCHANGED <<latest_reading, adc_vars, button_vars, feedback_vars,
                   endstop_vars, dryer_vars>>

\* gcode.run_script returns or raises
StampedScriptFinish(ok) ==
    /\ ScriptReturn(ok)
    /\ stamps' = RemoveAt(stamps, Min(Running))
    /\ UNCHANGED <<script, latest_reading, adc_vars, button_vars, feedback_vars,
                   endstop_vars, dryer_vars>>

\* a sensor with insert, remove and runout responses
AllEdgesConfig == <<Gcodes(TRUE, TRUE, TRUE, FALSE, FALSE), FALSE>>

InitStamp ==
    /\ InitHelperWith({AllEdgesConfig})
    /\ sensor_type = "switch_pin"
    /\ InitAdc
    /\ button_handler = FALSE
    /\ button_handler_suspended = FALSE
    /\ InitFeedback

NextStamp ==
    \/ Tick
    \/ \E b \in BOOLEAN : SetPrinting(b)
    \/ HandleReady
    \/ EnableRunout(TRUE)
    \/ \E p \in BOOLEAN : StampedNote(now, p)
    \/ StampedHandlerStart
    \/ \E ok \in BOOLEAN : StampedScriptFinish(ok)

SpecStamp == InitStamp /\ [][NextStamp]_vars

(* ============ MmuHallEndstop: the dual-coil diameter =================== *)

\* the smoothing is followed for MaxSmooth samples
CanSample(e) == e.rawdia2 = e.rawdia1 \/ e.diameter.k < MaxSmooth

\* MmuHallEndstop.adc_callback: _calc_diameter, then _check_trigger, which
\* notes the presence on every sample.  (_homing is never set: home_start
\* raises at its first statement for want of self.reactor.)
EndstopAdcCallback(read_time, read_value) ==
    LET e == CalcDiameter([hall_endstop EXCEPT
                              !.lastFilamentWidthReading = read_value])
    IN  /\ sensor_type = "hall_endstop"
        /\ CanSample(hall_endstop)
        /\ hall_endstop' = e
        /\ IF e.fault
           THEN /\ last_op' = [Op("endstop_adc_callback") EXCEPT
                                   !.ok = FALSE, !.time = read_time]
                /\ UNCHANGED <<config, min_event_systime, filament_present,
                               sensor_enabled, runout_suspended, now,
                               ready_time, is_printing, pending>>
           ELSE /\ NoteEffect(read_time, EndstopPresent(e))
                /\ last_op' = NoteRecord("endstop_adc_callback", read_time,
                                         EndstopPresent(e))
                /\ UNCHANGED <<config, sensor_enabled, runout_suspended, now,
                               ready_time, is_printing>>
        /\ UNCHANGED <<adc_vars, button_vars, feedback_vars, stamp_vars,
                       dryer_vars>>

\* MmuHallEndstop.adc2_callback: _calc_diameter only
EndstopAdc2Callback(read_time, read_value) ==
    LET e == CalcDiameter([hall_endstop EXCEPT
                              !.lastFilamentWidthReading2 = read_value])
    IN  /\ sensor_type = "hall_endstop"
        /\ CanSample(hall_endstop)
        /\ hall_endstop' = e
        /\ last_op' = [Op("endstop_adc2_callback") EXCEPT
                           !.ok = ~e.fault, !.time = read_time]
        /\ UNCHANGED <<config, min_event_systime, filament_present,
                       sensor_enabled, runout_suspended, now, ready_time,
                       is_printing, pending>>
        /\ UNCHANGED <<adc_vars, button_vars, feedback_vars, stamp_vars,
                       dryer_vars>>

\* MmuHallEndstop.__init__ as MmuSensors.__init__ calls it (insert=True,
\* runout=True)
InitEndstop ==
    /\ InitHelperWith({ExtruderConfig})
    /\ sensor_type = "hall_endstop"
    /\ InitClassifier
    /\ a_min = 0
    /\ a_max = RawMax
    /\ build = NoBuild
    /\ button_handler = FALSE
    /\ button_handler_suspended = FALSE
    /\ InitFeedback
    /\ \E c \in EndstopConfigs : hall_endstop = NewEndstop(c)

NextEndstop ==
    \/ Tick
    \/ HandleReady
    \/ \E v \in HallSamples : EndstopAdcCallback(now, v)
    \/ \E v \in HallSamples : EndstopAdc2Callback(now, v)
    \/ HandlerStart
    \/ \E ok \in BOOLEAN : ScriptFinish(ok)

SpecEndstop == InitEndstop /\ [][NextEndstop]_vars

(* ================= construction of an analog sensor ==================== *)

\* the values a calibration bound takes
Ranges == 0..RawMax

\* raw samples x / AdcFull, below 0.0 and above 1.0 included
RawSamples == (-1)..(AdcFull + 1)

\* "self.a_min, self.a_max = a_range" of MmuAdcSwitchSensor.__init__ and
\* MmuHallSensor.__init__: the pair is stored as given, whatever its order
RangeAccepted(lo, hi) == TRUE

\* variant of ClampSample that takes the sample as it comes
ClampSample_None(x) == x

\* "adc = max(0.00001, min(0.99999, read_value))", a sample x standing for
\* x / AdcFull and 0.00001 for one unit
ClampSample(x) ==
    LET low == IF AdcFull - 1 < x THEN AdcFull - 1 ELSE x
    IN  IF 1 > low THEN 1 ELSE low

\* "r = self.pullup * adc / (1.0 - adc)" as a fraction, or ZeroDivisionError
Resistance(adc) ==
    IF AdcFull - adc = 0
    THEN [fault |-> TRUE, num |-> 0, den |-> 1]
    ELSE [fault |-> FALSE, num |-> Pullup * adc, den |-> AdcFull - adc]

\* r >= a and r <= a for a fraction r
AtLeast(r, a) == IF r.den > 0 THEN r.num >= a * r.den ELSE r.num <= a * r.den
AtMost(r, a) == IF r.den > 0 THEN r.num <= a * r.den ELSE r.num >= a * r.den

\* MmuAdcSwitchSensor.adc_callback: "r >= self.a_min and r <= self.a_max"
InRange(r) == AtLeast(r, a_min) /\ AtMost(r, a_max)

\* MmuAdcSwitchSensor.adc_callback for the raw sample read_value: lines
\* 531-539 classify it, the rest is SwitchAdcEffect.  A fault on line 536
\* leaves the callback before it has assigned anything but lastReadTime.
SwitchAdcSample(read_time, read_value) ==
    LET r == Resistance(ClampSample(read_value))
    IN  /\ sensor_type = "adc_switch"
        /\ sample' = read_value
        /\ IF r.fault
           THEN /\ last_op' = [Op("switch_adc_callback") EXCEPT
                                   !.ok = FALSE, !.time = read_time]
                /\ UNCHANGED <<config, min_event_systime, filament_present,
                               sensor_enabled, runout_suspended, now,
                               ready_time, is_printing, pending, sensor_type,
                               range_vars, stamp_vars, endstop_vars, dryer_vars, homing_vars, hall_vars, last_button,
                               last_pressed, last_debouncetime, cand, req,
                               button_vars, feedback_vars>>
           ELSE SwitchAdcEffect(read_time, InRange(r))

\* MmuAdcSwitchSensor(..., a_range=(lo, hi)) or MmuHallSensor(...,
\* a_range=(lo, hi)) called with the parameters the constructor has
Construct(class, lo, hi) ==
    /\ sensor_type = "none"
    /\ IF RangeAccepted(lo, hi)
       THEN /\ sensor_type' = class
            /\ a_min' = lo
            /\ a_max' = hi
            /\ build' = [lo |-> lo, hi |-> hi, outcome |-> "sensor"]
       ELSE /\ build' = [lo |-> lo, hi |-> hi, outcome |-> "config.error"]
            /\ UNCHANGED <<sensor_type, a_min, a_max>>
    /\ last_op' = Op("construct")
    /\ UNCHANGED <<config, min_event_systime, filament_present, sensor_enabled,
                   runout_suspended, now, ready_time, is_printing, pending,
                   homing_vars, hall_vars, switch_vars, req, button_vars,
                   feedback_vars, stamp_vars, endstop_vars, dryer_vars>>

\* How MmuSensors._create_sensor ends for a pin with an analog range: with a
\* secondary pin it calls MmuHallSensor, with a pullup MmuAdcSwitchSensor,
\* both with clog= and tangle= keywords neither __init__ has (TypeError);
\* with neither it raises config.error.
CreateOutcome(has_pin2, has_pullup) ==
    IF has_pin2 \/ has_pullup THEN "TypeError" ELSE "config.error"

\* MmuSensors._create_sensor(..., analog_range=(lo, hi), ...)
CreateSensor(lo, hi, has_pin2, has_pullup) ==
    /\ sensor_type = "none"
    /\ build' = [lo |-> lo, hi |-> hi,
                 outcome |-> CreateOutcome(has_pin2, has_pullup)]
    /\ last_op' = Op("create_sensor")
    /\ UNCHANGED <<config, min_event_systime, filament_present, sensor_enabled,
                   runout_suspended, now, ready_time, is_printing, pending,
                   sensor_type, a_min, a_max, homing_vars, hall_vars,
                   switch_vars, req, button_vars, feedback_vars, stamp_vars, endstop_vars, dryer_vars>>

\* no sensor constructed yet
InitBuild ==
    /\ InitHelperWith({ExtruderConfig})
    /\ sensor_type = "none"
    /\ InitClassifier
    /\ a_min = 0
    /\ a_max = 0
    /\ build = NoBuild
    /\ hall_endstop = NoEndstop
    /\ button_handler = FALSE
    /\ button_handler_suspended = FALSE
    /\ InitFeedback

NextBuild ==
    \/ Tick
    \/ \E class \in {"adc_switch", "hall"}, lo \in Ranges, hi \in Ranges :
           Construct(class, lo, hi)
    \/ \E lo \in Ranges, hi \in Ranges, has_pin2 \in BOOLEAN,
          has_pullup \in BOOLEAN : CreateSensor(lo, hi, has_pin2, has_pullup)
    \/ \E x \in RawSamples : SwitchAdcSample(now, x)
    \/ \E v \in HallSamples : HallAdcCallback(now, v)

SpecBuild == InitBuild /\ [][NextBuild]_vars

(* ============ sync feedback from the tension/compression pair ========== *)

\* variant of SyncTensionValue with the two single-sensor signs exchanged
SyncTensionValue_Swapped(tension_state, tension_enabled, has_active_compression, compression_state) ==
    IF tension_enabled
    THEN IF has_active_compression
         THEN IF tension_state = compression_state THEN 0
              ELSE IF tension_state /\ ~compression_state THEN -1
              ELSE 1
         ELSE IF tension_state THEN 1 ELSE -1
    ELSE IF has_active_compression
         THEN IF compression_state THEN 1 ELSE -1
         ELSE 0

\* _sync_tension_callback: event_value
SyncTensionValue(tension_state, tension_enabled, has_active_compression, compression_state) ==
    IF tension_enabled
    THEN IF has_active_compression
         THEN IF tension_state = compression_state THEN 0
              ELSE IF tension_state /\ ~compression_state THEN -1
              ELSE 1
         ELSE IF tension_state THEN -1 ELSE 1
    ELSE IF has_active_compression
         THEN IF compression_state THEN 1 ELSE -1
         ELSE 0

\* _sync_compression_callback: event_value
SyncCompressionValue(compression_state, compression_enabled, has_active_tension, tension_state) ==
    IF compression_enabled
    THEN IF has_active_tension
         THEN IF tension_state = compression_state THEN 0
              ELSE IF compression_state /\ ~tension_state THEN 1
              ELSE -1
         ELSE IF compression_state THEN 1 ELSE -1
    ELSE IF has_active_tension
         THEN IF tension_state THEN -1 ELSE 1
         ELSE 0

\* "x.runout_helper.sensor_enabled if x else False" for the counterpart
HasActive(s) == IF sync_exists[s] THEN sync_enabled[s] ELSE FALSE

\* "x.runout_helper.filament_present if has_active_x else False"
ActiveState(s) == IF HasActive(s) THEN sync_present[s] ELSE FALSE

\* the value the callback of sensor s sends for the reading state
SyncValue(s, state) ==
    IF s = "tension"
    THEN SyncTensionValue(state, sync_enabled[s],
                          HasActive("compression"), ActiveState("compression"))
    ELSE SyncCompressionValue(state, sync_enabled[s],
                              HasActive("tension"), ActiveState("tension"))

\* the other sensor of the pair
Counterpart(s) == IF s = "tension" THEN "compression" ELSE "tension"

\* variant of AfterSyncCallback that writes the counterpart state it used
\* back to the counterpart's helper
AfterSyncCallback_Latches(s, st) ==
    [st EXCEPT ![Counterpart(s)].filament_present =
                   IF sync_exists[Counterpart(s)]
                      /\ st[Counterpart(s)].sensor_enabled
                   THEN @ ELSE FALSE]

\* _sync_tension_callback / _sync_compression_callback of sensor s: the
\* helpers of both sensors after the callback, st being the helpers at its
\* start.  The callback reads sensor_enabled and filament_present and sends
\* the event; it assigns nothing.
AfterSyncCallback(s, st) == st

\* note_filament_present on the helper of sync sensor s.  Its helper has no
\* insert, remove or runout command (_create_simple_switch_sensor drops the
\* clog and tangle flags), so the call stores the value and calls the button
\* handler, which sends the event
SyncNoteFilamentPresent(s, eventtime, is_present) ==
    LET invoked == InvokesHandler(TRUE, sync_suspended[s],
                                  sync_present[s] # is_present, FALSE)
        entry == [SyncState EXCEPT ![s].filament_present = is_present]
        after == IF invoked THEN AfterSyncCallback(s, entry) ELSE entry
    IN  /\ sync_exists[s]
        /\ sync_present' = [t \in SyncSensors |-> after[t].filament_present]
        /\ sync_enabled' = [t \in SyncSensors |-> after[t].sensor_enabled]
        /\ sync_runout_suspended' =
               [t \in SyncSensors |-> after[t].runout_suspended]
        /\ sync_min_event_systime' =
               [t \in SyncSensors |-> after[t].min_event_systime]
        /\ IF invoked
           THEN /\ feedback' = [source |-> s, time |-> eventtime,
                                value |-> SyncValue(s, is_present)]
                /\ last_op' = [Op("sync_note") EXCEPT
                                  !.present = is_present, !.time = eventtime,
                                  !.kind = s, !.handler = TRUE,
                                  !.published = TRUE]
           ELSE /\ UNCHANGED feedback
                /\ last_op' = [Op("sync_note") EXCEPT
                                  !.present = is_present, !.time = eventtime,
                                  !.kind = s]
        /\ UNCHANGED <<config, min_event_systime, filament_present,
                       sensor_enabled, runout_suspended, now, ready_time,
                       is_printing, pending, adc_vars, stamp_vars, endstop_vars, dryer_vars, button_vars,
                       sync_exists, sync_suspended, prop_vars>>

\* SET_FILAMENT_SENSOR on sync sensor s
SyncSetFilamentSensor(s, enable) ==
    /\ sync_exists[s]
    /\ sync_enabled' = [sync_enabled EXCEPT ![s] = enable]
    /\ last_op' = Op("other")
    /\ UNCHANGED <<config, min_event_systime, filament_present, sensor_enabled,
                   runout_suspended, now, ready_time, is_printing, pending,
                   adc_vars, stamp_vars, endstop_vars, dryer_vars, button_vars, sync_exists, sync_present,
                   sync_suspended, sync_runout_suspended,
                   sync_min_event_systime, prop_vars, feedback>>

\* enable_button_feedback on the helper of sync sensor s
SyncEnableButtonFeedback(s, restore) ==
    /\ sync_exists[s]
    /\ sync_suspended' = [sync_suspended EXCEPT ![s] = ~restore]
    /\ last_op' = Op("other")
    /\ UNCHANGED <<config, min_event_systime, filament_present, sensor_enabled,
                   runout_suspended, now, ready_time, is_printing, pending,
                   adc_vars, stamp_vars, endstop_vars, dryer_vars, button_vars, sync_exists, sync_enabled,
                   sync_present, sync_runout_suspended,
                   sync_min_event_systime, prop_vars, feedback>>

\* enable_runout on the helper of sync sensor s
SyncEnableRunout(s, restore) ==
    /\ sync_exists[s]
    /\ sync_runout_suspended' =
           [sync_runout_suspended EXCEPT
               ![s] = IF restore THEN "False" ELSE "True"]
    /\ last_op' = Op("other")
    /\ UNCHANGED <<config, min_event_systime, filament_present, sensor_enabled,
                   runout_suspended, now, ready_time, is_printing, pending,
                   adc_vars, stamp_vars, endstop_vars, dryer_vars, button_vars, sync_exists, sync_enabled,
                   sync_present, sync_suspended, sync_min_event_systime,
                   prop_vars, feedback>>

\* klippy:ready: _handle_ready of the helper of every sync sensor
SyncHandleReady ==
    /\ ready_time = NotReady
    /\ now <= MaxReadyTime
    /\ ready_time' = now
    /\ sync_min_event_systime' =
           [s \in SyncSensors |->
               IF sync_exists[s] THEN now + WarmUp
               ELSE sync_min_event_systime[s]]
    /\ last_op' = Op("other")
    /\ UNCHANGED <<config, min_event_systime, filament_present, sensor_enabled,
                   runout_suspended, now, is_printing, pending,
                   adc_vars, stamp_vars, endstop_vars, dryer_vars, button_vars, sync_exists, sync_enabled,
                   sync_present, sync_suspended, sync_runout_suspended,
                   prop_vars, feedback>>

\* MmuSensors.__init__ with sync_feedback_tension_pin and/or
\* sync_feedback_compression_pin configured
InitSync ==
    /\ InitHelperWith({<<Gcodes(FALSE, FALSE, FALSE, FALSE, FALSE), FALSE>>})
    /\ sensor_type = "switch_pin"
    /\ InitAdc
    /\ button_handler = TRUE
    /\ button_handler_suspended = FALSE
    /\ sync_exists \in [SyncSensors -> BOOLEAN]
    /\ \E s \in SyncSensors : sync_exists[s]
    /\ sync_enabled = [s \in SyncSensors |-> TRUE]
    /\ sync_present = [s \in SyncSensors |-> FALSE]
    /\ sync_suspended = [s \in SyncSensors |-> FALSE]
    /\ sync_runout_suspended = [s \in SyncSensors |-> "None"]
    /\ sync_min_event_systime = [s \in SyncSensors |-> NEVER]
    /\ max_tension = RawMax
    /\ max_compression = 0
    /\ neutral_point = RawMax
    /\ value_raw = 0
    /\ value = 0
    /\ last_extreme = NoExtreme
    /\ feedback = NoFeedback

NextSync ==
    \/ Tick
    \/ \E s \in SyncSensors, p \in BOOLEAN : SyncNoteFilamentPresent(s, now, p)
    \/ \E s \in SyncSensors, b \in BOOLEAN : SyncSetFilamentSensor(s, b)
    \/ \E s \in SyncSensors, b \in BOOLEAN : SyncEnableButtonFeedback(s, b)
    \/ \E s \in SyncSensors : SyncEnableRunout(s, FALSE)
    \/ SyncHandleReady

SpecSync == InitSync /\ [][NextSync]_vars

(* ======================== proportional sensor ========================== *)

Abs(x) == IF x < 0 THEN -x ELSE x

\* variant of Clamp that lets the value through
Clamp_None(y) == y

\* _map_reading: "if y < -1.0: y = -1.0; if y > 1.0: y = 1.0"
Clamp(y) == IF y < -One THEN -One ELSE IF y > One THEN One ELSE y

\* num / max(d, eps) in units of 1/One, rounded towards zero, for num >= 0:
\* with d <= 0 the divisor is eps = 1e-12, which takes every num > 0 far
\* beyond 1.0
Quotient(num, d) ==
    IF d > 0 THEN (num * One) \div d
    ELSE IF num = 0 THEN 0 ELSE 2 * One

\* MmuProportionalSensor._map_reading with gamma 1 (linear).  Raw readings
\* and the extremes are in units of 1/RawMax, the neutral point n2 and the
\* distances in units of 1/(2 RawMax); the result is in units of 1/RawMax
\* (One stands for 1.0)
MapReading(v_raw, n2, max_t, max_c) ==
    LET reversed == max_c < max_t
        d_neg == IF ~reversed THEN n2 - 2 * max_t ELSE 2 * max_t - n2
        d_pos == IF ~reversed THEN 2 * max_c - n2 ELSE n2 - 2 * max_c
        y == IF ~reversed
             THEN IF 2 * v_raw >= n2
                  THEN Quotient(2 * v_raw - n2, d_pos)
                  ELSE -Quotient(n2 - 2 * v_raw, d_neg)
             ELSE IF 2 * v_raw <= n2
                  THEN Quotient(n2 - 2 * v_raw, d_pos)
                  ELSE -Quotient(2 * v_raw - n2, d_neg)
    IN  Clamp(y)

\* variant of Extreme that keeps the sign
Extreme_Signed(v) == v

\* _adc_callback: "extreme = abs(self.value)"
Extreme(v) == Abs(v)

\* MmuProportionalSensor._adc_callback
PropAdcCallback(read_time, read_value) ==
    LET v == MapReading(read_value, neutral_point, max_tension,
                        max_compression)
        publishes == Abs(v) >= One /\ Extreme(v) # last_extreme
    IN  /\ value_raw' = read_value
        /\ value' = v
        /\ last_extreme' = IF publishes THEN Extreme(v) ELSE last_extreme
        /\ feedback' = IF publishes
                       THEN [source |-> "proportional", time |-> read_time,
                             value |-> v]
                       ELSE feedback
        /\ last_op' = [Op("prop_adc_callback") EXCEPT
                          !.time = read_time, !.published = publishes]
        /\ UNCHANGED <<config, min_event_systime, filament_present,
                       sensor_enabled, runout_suspended, now, ready_time,
                       is_printing, pending, adc_vars, stamp_vars, endstop_vars, dryer_vars, button_vars,
                       sync_vars, max_tension, max_compression,
                       neutral_point>>

\* the least and the greatest of two numbers
Lower(a, b) == IF a < b THEN a ELSE b
Upper(a, b) == IF a < b THEN b ELSE a

\* the calibrations __init__ accepts: any two extremes, and a neutral point
\* from the lower to the upper one (getfloat with minval=raw_min,
\* maxval=raw_max; the default is the mid point)
PropConfigs ==
    {r \in (0..RawMax) \X (0..RawMax) \X (0..(2 * RawMax)) :
         /\ r[3] >= 2 * Lower(r[1], r[2])
         /\ r[3] <= 2 * Upper(r[1], r[2])}

\* MmuProportionalSensor.__init__: the helper has the clog and tangle
\* commands and no button handler
InitProportional ==
    /\ InitHelperWith({<<Gcodes(FALSE, FALSE, FALSE, TRUE, TRUE), FALSE>>})
    /\ sensor_type = "proportional"
    /\ InitAdc
    /\ button_handler = FALSE
    /\ button_handler_suspended = FALSE
    /\ sync_exists = [s \in SyncSensors |-> FALSE]
    /\ sync_enabled = [s \in SyncSensors |-> TRUE]
    /\ sync_present = [s \in SyncSensors |-> FALSE]
    /\ sync_suspended = [s \in SyncSensors |-> FALSE]
    /\ sync_runout_suspended = [s \in SyncSensors |-> "None"]
    /\ sync_min_event_systime = [s \in SyncSensors |-> NEVER]
    /\ \E r \in PropConfigs :
           max_tension = r[1] /\ max_compression = r[2] /\ neutral_point = r[3]
    /\ value_raw = 0
    /\ value = 0
    /\ last_extreme = NoExtreme
    /\ feedback = NoFeedback

NextProportional ==
    \/ Tick
    \/ \E v \in 0..RawMax : PropAdcCallback(now, v)

SpecProportional == InitProportional /\ [][NextProportional]_vars

(* ======================= claims about the helper ======================= *)

NoteOp == last_op.op = "note_filament_present"
\* the reading differed from the stored presence
EdgeOp == NoteOp /\ last_op.edge
\* ... and passed "eventtime >= min_event_systime and sensor_enabled"
PassedEdge == EdgeOp /\ last_op.passed

\* C1: the number of registered-but-unfinished deferred responses of one
\* helper is never greater than one.
C1_AtMostOneOutstanding == Len(pending) <= 1

\* C2: while a response dispatched from a presence edge is outstanding, a
\* further reading updates filament_present and registers no second response.
C2_NoSecondDispatchWhileEdgeOutstanding ==
    LET before == IF last_op.kind # "none" THEN Len(pending) - 1
                                           ELSE Len(pending)
    IN  (NoteOp /\ \E i \in 1..before : pending[i].kind \in EdgeKinds)
            => (filament_present = last_op.present /\ last_op.kind = "none")

\* C3: whenever some deferred response is in flight, min_event_systime is
\* the NEVER sentinel.
C3_GuardClosedWhileInFlight ==
    pending # <<>> => min_event_systime = NEVER

C5_RunoutUnlessSuspended ==
    (PassedEdge /\ ~last_op.present /\ is_printing /\ gcodes["runout"]
        /\ runout_suspended # "True")
    => last_op.kind = "runout"

\* C5 (amended): such an edge dispatches runout exactly when runout_suspended
\* is Active (enable_runout(True) was called); while it is still Unset or is
\* Suspended the edge dispatches remove if remove is configured and
\* insert_remove_in_print is set, and nothing otherwise.
C5_RunoutOnlyWhenActive ==
    (PassedEdge /\ ~last_op.present /\ is_printing /\ gcodes["runout"])
    => /\ (last_op.kind = "runout") <=> (runout_suspended = "False")
       /\ runout_suspended # "False" =>
            last_op.kind = (IF gcodes["remove"] /\ insert_remove_in_print
                            THEN "remove" ELSE "none")

C5_Witness ==
    /\ PassedEdge /\ ~last_op.present /\ is_printing /\ gcodes["runout"]
    /\ runout_suspended = "None"
    /\ last_op.kind = "remove"

\* C6: an absent-to-present edge never dispatches a runout or a remove
\* response; without a configured insert response it dispatches nothing.
C6_PresentEdgeOnlyInserts ==
    (EdgeOp /\ last_op.present) =>
        /\ last_op.kind \in {"insert", "none"}
        /\ ~gcodes["insert"] => last_op.kind = "none"

\* C7: an event kind without a configured response never has a deferred
\* callback registered and never requests a print pause.
C7_UnconfiguredKindNeverDispatched ==
    /\ \A i \in 1..Len(pending) : gcodes[pending[i].kind]
    /\ (last_op.op \in {"handler_start", "handler_done"} /\ last_op.paused)
           => gcodes[last_op.kind]

\* C8: print-state gating of edges that pass suppression.
C8_PrintStateGating ==
    LET k == last_op.kind
        eligible == is_printing /\ runout_suspended = "False" /\ gcodes["runout"]
    IN  PassedEdge =>
        /\ (is_printing /\ ~insert_remove_in_print /\ last_op.present)
               => k = "none"
        /\ (is_printing /\ ~insert_remove_in_print /\ ~last_op.present)
               => k = (IF eligible THEN "runout" ELSE "none")
        /\ (~is_printing /\ ~last_op.present)
               => (k # "runout" /\ ((k = "remove") <=> gcodes["remove"]))
        /\ (eligible /\ ~last_op.present) => k = "runout"

\* C9: until klippy:ready min_event_systime is NEVER, and no reading stamped
\* before ready_time + 2.0 s causes a deferred response.
C9_NoDispatchDuringStartup ==
    /\ ready_time = NotReady => min_event_systime = NEVER
    /\ (NoteOp /\ (ready_time = NotReady \/ now < ready_time + WarmUp))
           => last_op.kind = "none"

\* C10: while sensor_enabled is false a reading still sets filament_present
\* (the value query_endstop returns) but registers no response and leaves
\* min_event_systime alone; a step that changes sensor_enabled changes
\* nothing else of the helper.
C10_DisabledSensorOnlyTracks ==
    [][ /\ (~sensor_enabled /\ last_op'.op = "note_filament_present")
            => /\ filament_present' = last_op'.present
               /\ query_endstop' = last_op'.present
               /\ pending' = pending
               /\ min_event_systime' = min_event_systime
        /\ (sensor_enabled' # sensor_enabled)
            => UNCHANGED <<config, min_event_systime, filament_present,
                           runout_suspended, now, ready_time, is_printing,
                           pending>>
      ]_vars

\* a disabled sensor saw an edge that an enabled one would have dispatched
C10_Witness ==
    /\ EdgeOp /\ ~sensor_enabled
    /\ now >= min_event_systime
    /\ DispatchKind(last_op.present, is_printing, runout_suspended, gcodes,
                    insert_remove_in_print) # "none"
    /\ query_endstop = last_op.present

\* C11: a note_filament_present call whose value equals the stored
\* filament_present (the second of two calls with the same value) dispatches
\* nothing and leaves filament_present, min_event_systime and the
\* registered callbacks as they were.
C11_RepeatedReadingChangesNothing ==
    [][(last_op'.op = "note_filament_present"
        /\ last_op'.present = filament_present)
       => UNCHANGED <<filament_present, min_event_systime, pending>>]_vars

\* a repeated value read while the guard is open, the sensor enabled and the
\* policy would answer an edge to that value
C11_Witness ==
    /\ NoteOp /\ ~last_op.edge /\ last_op.passed
    /\ last_op.present = filament_present
    /\ DispatchKind(last_op.present, is_printing, runout_suspended,
                    gcodes, insert_remove_in_print) # "none"

(* ================= claims about home_start / home_wait ================= *)

SampleOps == {"adc_callback", "adc2_callback", "switch_adc_callback"}

\* the completion returned by the latest home_start
Latest == Len(completions)

\* calls of complete() on completion i so far
CompleteCalls(c, i) == IF i <= Len(c) THEN c[i] ELSE 0

\* C12: home_start called while filament_present already equals the target
\* fulfils at once, and the following home_wait returns exactly that
\* print_time whatever samples arrive in between.
C12_ImmediateReturnsStartTime ==
    [][(last_op'.op = "home_wait" /\ req.open /\ req.immediate)
       => (last_op'.ok /\ last_op'.time = req.print_time)]_vars

\* C13: complete() is invoked at most once on every completion home_start
\* returned.
C13_CompleteAtMostOnce ==
    \A i \in 1..Len(completions) : completions[i] <= 1

\* C14: after a home_start that did not fulfil at once, the completion is
\* fulfilled by the first reading whose presence equals the target, further
\* matching readings change nothing, and home_wait returns that first
\* reading's timestamp.
C14_FirstMatchFulfils ==
    /\ [](req.open /\ ~req.immediate
          => IF req.first_match = NoTime
             THEN completions[Latest] = 0 /\ last_trigger_time = NoTime
             ELSE completions[Latest] = 1
                  /\ last_trigger_time = req.first_match)
    /\ [][(last_op'.op = "home_wait" /\ req.open /\ ~req.immediate
           /\ req.first_match # NoTime)
          => (last_op'.ok /\ last_op'.time = req.first_match)]_vars

\* a second matching reading, later than the first, before home_wait
C14_Witness ==
    /\ req.open /\ ~req.immediate
    /\ req.first_match # NoTime /\ req.first_match < last_op.time
    /\ last_op.op \in SampleOps /\ last_op.present = triggered

\* C15: home_wait after a home_start that was never fulfilled raises the
\* no-trigger error; raising or not it leaves homing inactive and no
\* completion in place, and until the next home_start no reading fulfils a
\* completion or changes the recorded trigger time.
C15_HomeWaitEndsHoming ==
    [][/\ last_op'.op = "home_wait"
          => /\ ~homing' /\ trigger_completion' = NoCompletion
             /\ (req.open /\ completions[Latest] = 0) => ~last_op'.ok
       /\ (~req.open /\ last_op'.op \in SampleOps)
          => UNCHANGED <<completions, last_trigger_time>>]_vars

\* a reading equal to the target arrives after home_wait raised
C15_Witness ==
    /\ last_op.op \in SampleOps /\ last_op.present = triggered
    /\ ~req.open /\ Len(completions) >= 1 /\ last_trigger_time = NoTime

\* C16: a home_wait without a home_start since the previous home_wait raises
\* the no-trigger error.
C16_ConsumedRequestRaises ==
    [][(last_op'.op = "home_wait" /\ ~req.open) => ~last_op'.ok]_vars

\* C17: only the completion of the most recent home_start is ever fulfilled,
\* and with that call's target; home_wait reports a trigger recorded for the
\* most recent request only.
C17_OnlyLatestRequest ==
    [][/\ \A i \in 1..Len(completions') :
              completions'[i] > CompleteCalls(completions, i)
              => /\ i = Len(completions')
                 /\ last_op'.present = triggered'
                 /\ filament_present' = triggered'
       /\ (last_op'.op = "home_wait" /\ last_op'.ok)
          => trigger_req = Latest]_vars

\* a request started over an active unfulfilled one has been fulfilled by a
\* reading; the earlier completion is still unfulfilled
C17_Witness ==
    /\ req.open /\ req.replaced /\ ~req.immediate
    /\ last_op.op \in SampleOps
    /\ Latest = 2 /\ completions = <<0, 1>> /\ trigger_req = 2

(* =================== claims about the button handler =================== *)

\* C19: a registered, non-suspended button handler is invoked in every
\* note_filament_present call, seeing the updated filament_present and before
\* the response the call registers has run, whether or not the value changed,
\* the sensor is enabled or the guard is open; while suspended by
\* enable_button_feedback(False) it is not invoked, until
\* enable_button_feedback(True).
C19_HandlerOnEveryCall ==
    [][/\ last_op'.op = "note_filament_present"
          => /\ last_op'.handler = (button_handler /\ ~button_handler_suspended)
             /\ last_op'.handler => last_op'.seen = PyBool(last_op'.present)
             /\ last_op'.kind # "none"
                => ~pending'[Len(pending')].running
       /\ button_handler_suspended' # button_handler_suspended
          => last_op'.op = "enable_button_feedback"
       /\ last_op'.op = "enable_button_feedback"
          => button_handler_suspended' = ~last_op'.present]_vars

\* the handler ran for a repeated value on a disabled sensor while a
\* response was in flight
C19_Witness ==
    /\ NoteOp /\ last_op.handler
    /\ ~last_op.edge /\ ~sensor_enabled /\ pending # <<>>

(* ====================== claims about sync feedback ===================== *)

\* the table of the specification
SyncTable(t_enabled, t_present, c_enabled, c_present) ==
    IF t_enabled /\ c_enabled
    THEN IF t_present = c_present THEN 0
         ELSE IF t_present THEN -1 ELSE 1
    ELSE IF t_enabled THEN (IF t_present THEN -1 ELSE 1)
    ELSE IF c_enabled THEN (IF c_present THEN 1 ELSE -1)
    ELSE 0

\* C18: whichever sensor reported, the value sent on mmu:sync_feedback is
\* the table's value for the (enabled, present) states of the two sensors,
\* and it is one of -1, 0, 1.
C18_SyncFeedbackTable ==
    (last_op.op = "sync_note" /\ last_op.published)
    => /\ feedback.value = SyncTable(HasActive("tension"),
                                     sync_present["tension"],
                                     HasActive("compression"),
                                     sync_present["compression"])
       /\ feedback.value \in {-1, 0, 1}
       /\ feedback.source = last_op.kind

\* the disabled tension sensor reports while only compression is enabled
\* and present
C18_Witness ==
    /\ last_op.op = "sync_note" /\ last_op.published
    /\ feedback.source = "tension" /\ ~sync_enabled["tension"]
    /\ HasActive("compression") /\ sync_present["compression"]
    /\ feedback.value = 1

(* =================== claims about the proportional sensor ============== *)

\* C20: a sample publishes an mmu:sync_feedback event exactly when its
\* mapped value is +1.0 or -1.0 and differs from the value of the previously
\* published event: after +1.0 a sample at -1.0 publishes again (and vice
\* versa), and a repeated extreme publishes nothing.
C20_PublishesOnSignedExtremeChange ==
    [][last_op'.op = "prop_adc_callback"
       => (last_op'.published
           <=> /\ Abs(value') >= One
               /\ (feedback = NoFeedback \/ feedback.value # value'))]_vars

PropOp == last_op.op = "prop_adc_callback"

\* the raw value lies beyond the configured extreme of compression / tension
BeyondCompression ==
    IF max_compression < max_tension THEN value_raw < max_compression
                                     ELSE value_raw > max_compression
BeyondTension ==
    IF max_compression < max_tension THEN value_raw > max_tension
                                     ELSE value_raw < max_tension

\* C21: for both orientations the neutral point maps to 0, the configured
\* max_compression to exactly +1 and max_tension to exactly -1, every raw
\* value beyond an extreme to exactly +1 or -1, and the result is never
\* outside [-1, 1].
C21_MapReadingExtremes ==
    PropOp
    => /\ 2 * value_raw = neutral_point => value = 0
       /\ value_raw = max_compression => value = One
       /\ value_raw = max_tension => value = -One
       /\ (BeyondCompression \/ BeyondTension) => value \in {One, -One}
       /\ value \in (-One)..One

\* C21 amended: the neutral point maps to 0; max_compression maps to exactly
\* +1 and max_tension to exactly -1 unless that extreme is itself the neutral
\* point; beyond the compression extreme the result is +1 and beyond the
\* tension extreme -1 when the two extremes differ; the result is never
\* outside [-1, 1].
C21_MapReadingProperExtremes ==
    PropOp
    => /\ 2 * value_raw = neutral_point => value = 0
       /\ (value_raw = max_compression /\ neutral_point # 2 * max_compression)
          => value = One
       /\ (value_raw = max_tension /\ neutral_point # 2 * max_tension)
          => value = -One
       /\ max_tension # max_compression
          => /\ BeyondCompression => value = One
             /\ BeyondTension => value = -One
       /\ (BeyondCompression \/ BeyondTension) => value \in {One, -One}
       /\ value \in (-One)..One

\* an asymmetric calibration with tension at the high end, read beyond the
\* compression extreme
C21_Witness ==
    /\ PropOp
    /\ max_compression < max_tension
    /\ neutral_point # max_tension + max_compression
    /\ 2 * max_compression < neutral_point /\ neutral_point < 2 * max_tension
    /\ BeyondCompression /\ value = One

(* =================== claims about the ADC switch sensor ================ *)

SwitchOp == last_op.op = "switch_adc_callback"

\* C22: a sample is accepted exactly when its candidate equals that of the
\* uninterrupted run before it, the run began at least adc_debounce_time
\* earlier, and the candidate differs from the value accepted last; a sample
\* that is not accepted is neither forwarded to the helper nor fulfils a
\* homing request.
C22_DebouncedAcceptance ==
    [][last_op'.op = "switch_adc_callback"
       => /\ last_op'.edge
             <=> /\ cand.value = PyBool(last_op'.present)
                 /\ last_op'.time - cand.since >= AdcDebounceTicks
                 /\ cand.accepted # PyBool(last_op'.present)
          /\ last_op'.edge => filament_present' = last_op'.present
          /\ ~last_op'.edge
             => UNCHANGED <<filament_present, min_event_systime, pending,
                            completions, last_trigger_time>>]_vars

\* a present candidate accepted after its run has lasted the debounce time,
\* the run having begun after the first sample
C22_Witness ==
    /\ SwitchOp /\ last_op.edge /\ last_op.present
    /\ cand.since >= 1 /\ last_op.time >= cand.since + AdcDebounceTicks
    /\ cand.accepted = "True" /\ filament_present

\* C23: on a sensor with insert and remove and no button handler, the first
\* accepted reading, if absent, dispatches nothing; an accepted present
\* reading on the absent sensor, with the guard open (after warm-up), the
\* sensor enabled and not printing, sets filament_present and dispatches
\* exactly one insert response.
C23_FirstAbsentThenInsert ==
    [][(last_op'.op = "switch_adc_callback" /\ last_op'.edge)
       => /\ (~last_op'.present /\ cand.accepted = "None")
             => /\ last_op'.kind = "none"
                /\ UNCHANGED <<filament_present, min_event_systime, pending>>
          /\ (last_op'.present /\ ~filament_present /\ ~is_printing
              /\ sensor_enabled /\ last_op'.time >= min_event_systime)
             => /\ filament_present'
                /\ last_op'.kind = "insert"
                /\ pending' = Append(pending, Callback("insert"))
                /\ min_event_systime' = NEVER]_vars

\* the insert response of a present reading accepted after warm-up is the
\* only response registered
C23_Witness ==
    /\ SwitchOp /\ last_op.edge /\ last_op.present /\ last_op.kind = "insert"
    /\ ready_time # NotReady /\ last_op.time >= ready_time + WarmUp
    /\ filament_present /\ ~is_printing
    /\ pending = <<Callback("insert")>>

(* ====================== claims about the hall sensor =================== *)

\* C24: the primary callback recomputes presence from the new val1 and the
\* cached val2 on every call; the secondary callback, when no homing is
\* active, changes only the cached val2 (present, filament_present,
\* min_event_systime, the pending responses and the homing state stay, and
\* nothing is published); when homing is active it recomputes presence from
\* the cached val1 and the new val2, reports it to the helper and fulfils the
\* completion in place when presence equals the target.
C24_SecondaryPinOnlyWhileHoming ==
    [][/\ last_op'.op = "adc_callback"
          => /\ val2' = val2
             /\ hall_present' = HallPresent(val1', val2)
             /\ filament_present' = hall_present'
       /\ (last_op'.op = "adc2_callback" /\ ~homing)
          => /\ last_op'.kind = "none" /\ ~last_op'.published
             /\ UNCHANGED <<val1, hall_present, filament_present,
                            min_event_systime, pending, homing_vars,
                            feedback>>
       /\ (last_op'.op = "adc2_callback" /\ homing)
          => /\ val1' = val1
             /\ hall_present' = HallPresent(val1, val2')
             /\ filament_present' = hall_present'
             /\ (hall_present' = triggered
                 /\ trigger_completion # NoCompletion)
                => /\ completions'[trigger_completion]
                        = completions[trigger_completion] + 1
                   /\ trigger_completion' = NoCompletion
                   /\ last_trigger_time' = last_op'.time]_vars

\* a secondary sample outside homing that would have changed presence
C24_Witness ==
    /\ last_op.op = "adc2_callback" /\ ~homing
    /\ HallPresent(val1, val2) # hall_present

(* ================= claims about the deferred responses ================= *)

HandlerOps == {"handler_start", "handler_done"}

\* C25: a runout handler asks pause_resume for the pause in the step in
\* which the reactor starts it, before its script runs: every runout
\* response whose script is running has been paused, no response is paused
\* before its handler has started, and insert and remove responses are
\* never paused.
C25_RunoutPausesBeforeScript ==
    /\ \A i \in 1..Len(pending) :
          /\ (pending[i].running /\ pending[i].kind = "runout")
             => pending[i].paused
          /\ ~pending[i].running => ~pending[i].paused
          /\ pending[i].kind \in {"insert", "remove"} => ~pending[i].paused
    /\ last_op.op \in HandlerOps
       => /\ last_op.kind = "runout" => last_op.paused
          /\ last_op.kind \in {"insert", "remove"} => ~last_op.paused

\* the script of a runout response is running, its pause requested
C25_Witness ==
    \E i \in 1..Len(pending) :
        /\ pending[i].kind = "runout" /\ pending[i].running
        /\ pending[i].paused

DispatchOps == {"note_filament_present", "note_clog_tangle"}

\* C26: the call that dispatches a response only closes the guard and
\* registers the callback, not yet started; a script begins to run only in a
\* later step in which the reactor starts a registered handler.
C26_ScriptNeverInsideDispatchingCall ==
    [][/\ (last_op'.op \in DispatchOps /\ last_op'.kind # "none")
          => /\ pending' = Append(pending, Callback(last_op'.kind))
             /\ ~pending'[Len(pending')].running
             /\ Running' = Running
             /\ min_event_systime' = NEVER
       /\ Cardinality(Running') > Cardinality(Running)
          => last_op'.op = "handler_start"]_vars

\* an edge has just been dispatched: its response is registered, not running
C26_Witness ==
    /\ NoteOp /\ last_op.kind # "none"
    /\ pending = <<Callback(last_op.kind)>>
    /\ min_event_systime = NEVER

FinishOps == {"script_done", "handler_done"}

ReadingOps ==
    {"note_filament_present", "adc_callback", "adc2_callback",
     "switch_adc_callback"}

\* C28: filament_present of a sensor changes only in a step that reports a
\* reading (note_filament_present, reached from a sample callback), and then
\* to the reading's value; running or finishing a response, _handle_ready,
\* note_clog_tangle, enable_runout, enable_button_feedback,
\* SET_FILAMENT_SENSOR, QUERY_FILAMENT_SENSOR, get_status, query_endstop,
\* home_start and home_wait leave it as it was.
C28_PresenceOnlyByReading ==
    [][filament_present' # filament_present
          => /\ last_op'.op \in ReadingOps
             /\ last_op'.present = filament_present']_vars

\* the sensor holds filament; since then it was made ready, disabled, had
\* runout and button feedback suspended, ran a tangle response, was homed to
\* and waited for, and query_endstop still reports the filament
C28_Witness ==
    /\ filament_present /\ ~sensor_enabled
    /\ runout_suspended = "True" /\ button_handler_suspended
    /\ ready_time # NotReady /\ min_event_systime = now + EventDelay
    /\ ~homing /\ Len(completions) > 0
    /\ last_op.op = "query_endstop" /\ last_op.present

(* ============== claims about the sync-feedback callbacks =============== *)

\* C29: the sync-feedback callbacks never change state of either sensor:
\* after _sync_tension_callback or _sync_compression_callback has run,
\* filament_present, sensor_enabled, runout_suspended and min_event_systime
\* of the reporting sensor and of its counterpart are what they were when
\* the callback started, that is when note_filament_present had stored the
\* reading in the reporting sensor.
C29_SyncCallbackChangesNothing ==
    [][(last_op'.op = "sync_note" /\ last_op'.handler)
          => SyncState' = [SyncState EXCEPT
                              ![last_op'.kind].filament_present =
                                  last_op'.present]]_vars

\* the tension sensor reports filament after klippy:ready while the
\* compression sensor holds filament, is disabled and has runout suspended
C29_Witness ==
    /\ last_op.op = "sync_note" /\ last_op.handler /\ last_op.kind = "tension"
    /\ sync_exists["compression"] /\ sync_present["compression"]
    /\ ~sync_enabled["compression"]
    /\ sync_runout_suspended["compression"] = "True"
    /\ sync_min_event_systime["tension"] # NEVER
    /\ sync_present["tension"]

(* ============== claims about constructing an analog sensor ============ *)

\* C30: constructing an analog sensor with a range whose lower bound is
\* greater than its upper bound (a_min > a_max) ends in a configuration
\* error, and no constructed sensor has a_min > a_max.
C30_InvertedRangeRejected ==
    /\ (build.outcome # "none" /\ build.lo > build.hi)
           => build.outcome = "config.error"
    /\ sensor_type \in {"hall", "adc_switch"} => a_min <= a_max

(* ============== claims about the switch classification =============== *)

\* the sample the specification clamps to [0.00001, 0.99999]
Clamped(x) == IF x < 1 THEN 1 ELSE IF x > AdcFull - 1 THEN AdcFull - 1 ELSE x

\* C31: switch classification is total and inclusive: every raw sample, 0.0
\* and 1.0 and values outside (0, 1) included, is classified without a
\* division fault, and the presence candidate is true exactly when
\* a_min <= R <= a_max for R = pullup * x / (1 - x) of the clamped sample x.
C31_ClassificationTotalInclusive ==
    (last_op.op = "switch_adc_callback" /\ sample # NoSample)
    => /\ last_op.ok
       /\ last_op.present =
              (/\ a_min * (AdcFull - Clamped(sample)) <= Pullup * Clamped(sample)
               /\ Pullup * Clamped(sample) <= a_max * (AdcFull - Clamped(sample)))

\* a sample above 1.0 is clamped to a resistance equal to a_max and counts
\* as present
C31_Witness ==
    /\ last_op.op = "switch_adc_callback" /\ sample = AdcFull + 1
    /\ a_max * (AdcFull - Clamped(sample)) = Pullup * Clamped(sample)
    /\ last_op.present /\ last_button = "True"

(* ================= claims about the helper's guard ===================== *)

\* C32: note_clog_tangle obeys the guard of presence edges: a clog or tangle
\* injected while min_event_systime is NEVER or later than the event time
\* (before klippy:ready, in the warm-up, in the event_delay window or while a
\* response is in flight) registers no deferred response, so nothing pauses
\* the print.
C32_ClogTangleObeysGuard ==
    [][(last_op'.op = "note_clog_tangle" /\ now < min_event_systime)
          => pending' = pending]_vars

\* C33: the response run for a dispatched edge receives as EVENTTIME the
\* timestamp of the edge that caused the dispatch, not the time at which the
\* deferred handler runs and not the timestamp of a later reading.
C33_EventTimeIsEdgeTime ==
    script.kind # "none" => script.eventtime = script.origin

\* a response ran later than its edge, after a later reading had arrived
C33_Witness ==
    /\ script.kind \in EdgeKinds
    /\ script.eventtime = script.origin
    /\ script.at > script.origin
    /\ script.latest > script.origin

(* ================= claims about the Hall endstop ======================= *)

EndstopOps == {"endstop_adc_callback", "endstop_adc2_callback"}

\* C34: with a zero-span calibration (rawdia2 = rawdia1) _calc_diameter
\* raises no fault on any sample: the diameter is the nominal 1.75, and the
\* presence noted to the helper is defined, present exactly when
\* 1.75 > hall_min_diameter.
C34_ZeroSpanFallsBack ==
    (hall_endstop.rawdia2 = hall_endstop.rawdia1 /\ last_op.op \in EndstopOps)
    => /\ last_op.ok /\ ~hall_endstop.fault
       /\ hall_endstop.diameter.num = NominalDiameter * Pow3(hall_endstop.diameter.k)
       /\ last_op.op = "endstop_adc_callback"
              => /\ last_op.present
                       = (NominalDiameter > hall_endstop.hall_min_diameter)
                 /\ filament_present = last_op.present

\* a zero-span endstop has sampled both coils and reports filament
C34_Witness ==
    /\ hall_endstop.rawdia2 = hall_endstop.rawdia1
    /\ hall_endstop.lastFilamentWidthReading = 1
    /\ hall_endstop.lastFilamentWidthReading2 = 1
    /\ last_op.op = "endstop_adc_callback"
    /\ filament_present /\ hall_endstop.hall_min_diameter = 100

(* ============ deferred handlers under fair scheduling ================== *)

\* the helpers of a pre-gate sensor and of the proportional sensor: between
\* them they have a command for each of the five event kinds
LiveConfigs ==
    { <<Gcodes(TRUE,  TRUE,  TRUE,  FALSE, FALSE), TRUE>>,
      <<Gcodes(FALSE, FALSE, FALSE, TRUE,  TRUE),  FALSE>> }

\* _runout_event_handler of the oldest registered callback raises in
\* printer.lookup_object("pause_resume") (no such object) or in
\* pause_resume.send_pause_command(): neither call is inside a try, so
\* _exec_gcode is not reached and min_event_systime keeps its value
HandlerRaises ==
    /\ Registered # {}
    /\ LET i == Min(Registered)
           r == pending[i]
       IN  /\ HandlerPauses(r.kind)
           /\ pending' = RemoveAt(pending, i)
           /\ last_op' = [Op("handler_raised") EXCEPT !.kind = r.kind,
                                                      !.ok = FALSE]
    /\ UNCHANGED <<config, min_event_systime, filament_present, sensor_enabled,
                   runout_suspended, now, ready_time, is_printing>>
    /\ UNCHANGED ext_vars

InitLive ==
    /\ InitHelperWith(LiveConfigs)
    /\ sensor_type = "switch_pin"
    /\ InitAdc
    /\ button_handler = FALSE
    /\ button_handler_suspended = FALSE
    /\ InitFeedback

NextLive ==
    \/ Tick
    \/ \E b \in BOOLEAN : SetPrinting(b)
    \/ HandleReady
    \/ EnableRunout(TRUE)
    \/ \E p \in BOOLEAN : NoteFilamentPresent(now, p)
    \/ \E k \in InjectKinds : NoteClogTangle(k)
    \/ HandlerStart
    \/ HandlerRaises
    \/ \E ok \in BOOLEAN : ScriptFinish(ok)

\* the reactor runs every callback it holds, and gcode.run_script returns
\* or raises
SpecLive ==
    /\ InitLive
    /\ [][NextLive]_vars
    /\ WF_vars(HandlerStart \/ HandlerRaises)
    /\ WF_vars(\E ok \in BOOLEAN : ScriptFinish(ok))

\* C35: every dispatch (min_event_systime set to NEVER with a response
\* registered) is eventually followed by a state in which min_event_systime
\* is finite again, whatever the event kind and also when the pause request
\* of the runout, clog or tangle handler raises.
C35_GuardReleasedAfterDispatch ==
    (min_event_systime = NEVER /\ pending # <<>>) ~> (min_event_systime # NEVER)

(* ============ claims about classifier and helper ======================= *)

\* the samples that compare their value with the homing target
ComparingSample ==
    \/ last_op.op = "adc_callback"
    \/ last_op.op = "adc2_callback" /\ homing
    \/ last_op.op = "switch_adc_callback" /\ last_op.edge

\* C36: the classifier's accepted presence agrees with the helper: for
\* MmuHallSensor the cached present equals filament_present, for
\* MmuAdcSwitchSensor last_pressed is None or equals filament_present; so the
\* value a sample compared with the homing target is what query_endstop
\* returns after that sample.
C36_ClassifierAgreesWithHelper ==
    /\ sensor_type = "hall" => hall_present = filament_present
    /\ (sensor_type = "adc_switch" /\ last_pressed # "None")
           => last_pressed = PyBool(filament_present)
    /\ ComparingSample => last_op.present = query_endstop

\* a secondary-pin sample taken while homing changed the presence and
\* fulfilled the request
C36_Witness ==
    /\ sensor_type = "hall"
    /\ last_op.op = "adc2_callback"
    /\ last_op.present /\ hall_present /\ query_endstop
    /\ val1 = 0 /\ val2 = 1
    /\ last_trigger_time = last_op.time

(* ============ claims about suppressed edges ============================ *)

\* C37: a suppressed presence edge is never dispatched later: a deferred
\* response is registered only in the step of a note_filament_present call
\* that reports an edge, passes the guard with the sensor enabled and selects
\* that response; _handle_ready, the end of a response and
\* SET_FILAMENT_SENSOR register nothing.
C37_SuppressedEdgeNeverDispatched ==
    [][Len(pending') > Len(pending)
          => /\ last_op'.op = "note_filament_present"
             /\ last_op'.edge /\ last_op'.passed
             /\ last_op'.time >= min_event_systime /\ sensor_enabled
             /\ last_op'.kind \in EdgeKinds
             /\ pending' = Append(pending, Callback(last_op'.kind))]_vars

\* the insert response has ended and released the guard while the stored
\* presence is the removal that was suppressed during it; nothing is pending
C37_Witness ==
    /\ last_op.op = "script_done" /\ last_op.kind = "insert"
    /\ ~filament_present /\ gcodes["remove"] /\ ~is_printing
    /\ sensor_enabled /\ min_event_systime # NEVER
    /\ pending = <<>>

(* ============ MmuEnvironmentManager: the drying cycle ================== *)

\* Python None for OFF and DRY
NoFlag == -1
\* OFF=, DRY=: not given, 0 or 1
Flags == {NoFlag, 0, 1}
\* TEMP=: not given, 0 or a temperature in degrees
Temps == {NoTemp, 0, 50}
\* TIME= in minutes (heater_default_dry_time when not given)
DryTimes == 0..MaxDryTime
\* HUMIDITY= (heater_default_humidity when not given)
TargetHumidities == {DefaultHumidity}
\* what _get_environment_status reports as humidity
HumidityReadings == {NoHumidity} \cup (0..(DefaultHumidity + 1))

\* _heater_on: SET_HEATER_TEMPERATURE TARGET=temp
HeaterOn(d, temp) == [d EXCEPT !.heater_target = temp]

\* _heater_off: SET_HEATER_TEMPERATURE TARGET=0
HeaterOff(d) == [d EXCEPT !.heater_target = 0]

\* _start_drying_cycle
StartDryingCycle(d) ==
    IF ~d.drying
    THEN [HeaterOn(d, d.drying_temp) EXCEPT !.drying = TRUE, !.timer = NOW]
    ELSE d

\* _stop_drying_cycle
StopDryingCycle(d) ==
    IF d.drying
    THEN [HeaterOff(d) EXCEPT !.timer = NEVER, !.drying = FALSE]
    ELSE d

\* the branch cmd_MMU_HEATER takes
HeaterBranch(off, dry, temp) ==
    IF off = 1 \/ temp = 0 THEN "off"
    ELSE IF dry # 1 /\ temp # NoTemp THEN "raw"
    ELSE IF dry = 1 THEN "dry"
    ELSE "status"

\* variant of CheckDue in which the periodic check also ends a cycle whose
\* drying time has elapsed
CheckDue_EndsOnTime(d, eventtime) ==
    d.drying_end_time # NoTime /\ eventtime >= d.drying_end_time

\* _check_mmu_environment: the check never compares the time with
\* _drying_end_time
CheckDue(d, eventtime) == FALSE

\* _check_mmu_environment: the dryer after the timer callback ran at eventtime
\* with the humidity reading cur_humidity; timer is the wake time it returns
AfterCheck(d, eventtime, cur_humidity) ==
    IF ~d.drying THEN [d EXCEPT !.timer = NEVER]
    ELSE IF \/ cur_humidity # NoHumidity
               /\ cur_humidity <= d.drying_humidity_target
            \/ CheckDue(d, eventtime)
         THEN [StopDryingCycle(d) EXCEPT !.timer = NEVER]
         ELSE [d EXCEPT !.timer = eventtime + CheckInterval]

\* how _check_mmu_environment ended
CheckKind(d, eventtime, cur_humidity) ==
    IF ~d.drying THEN "idle"
    ELSE IF AfterCheck(d, eventtime, cur_humidity).drying THEN "reschedule"
    ELSE "stopped"

\* cmd_MMU_HEATER with OFF, DRY, TIME, TEMP and HUMIDITY as given (GATES not
\* given, the MMU enabled)
CmdMmuHeater(off, dry, time, temp, humidity) ==
    LET branch == HeaterBranch(off, dry, temp)
        on == HeaterOn(dryer, temp)
    IN  /\ dryer' =
               CASE branch = "off" -> HeaterOff(StopDryingCycle(dryer))
                 [] branch = "raw" ->
                        IF dryer.drying THEN [on EXCEPT !.drying_temp = temp]
                        ELSE on
                 [] branch = "dry" ->
                        StartDryingCycle(
                            [dryer EXCEPT
                                !.drying_time = time,
                                !.drying_temp = IF temp # NoTemp THEN temp
                                                ELSE DefaultDryTemp,
                                !.drying_humidity_target = humidity,
                                !.drying_end_time = now + time])
                 [] OTHER -> dryer
        /\ last_op' = [Op("MMU_HEATER") EXCEPT !.kind = branch, !.time = now]
        /\ UNCHANGED <<config, min_event_systime, filament_present,
                       sensor_enabled, runout_suspended, now, ready_time,
                       is_printing, pending>>
        /\ UNCHANGED <<adc_vars, button_vars, feedback_vars, stamp_vars,
                       endstop_vars>>

\* the reactor runs the periodic timer once its wake time has come
CheckMmuEnvironment(cur_humidity) ==
    /\ dryer.timer <= now
    /\ dryer' = AfterCheck(dryer, now, cur_humidity)
    /\ last_op' = [Op("check_mmu_environment") EXCEPT
                       !.kind = CheckKind(dryer, now, cur_humidity),
                       !.time = now]
    /\ UNCHANGED <<config, min_event_systime, filament_present,
                   sensor_enabled, runout_suspended, now, ready_time,
                   is_printing, pending>>
    /\ UNCHANGED <<adc_vars, button_vars, feedback_vars, stamp_vars,
                   endstop_vars>>

\* _handle_mmu_disabled on an enabled MMU
HandleMmuDisabled ==
    /\ dryer' = HeaterOff(StopDryingCycle(dryer))
    /\ last_op' = [Op("mmu_disabled") EXCEPT !.time = now]
    /\ UNCHANGED <<config, min_event_systime, filament_present,
                   sensor_enabled, runout_suspended, now, ready_time,
                   is_printing, pending>>
    /\ UNCHANGED <<adc_vars, button_vars, feedback_vars, stamp_vars,
                   endstop_vars>>

InitDry ==
    /\ InitHelperWith({ExtruderConfig})
    /\ sensor_type = "switch_pin"
    /\ InitAdc
    /\ button_handler = FALSE
    /\ button_handler_suspended = FALSE
    /\ InitFeedback

NextDry ==
    \/ Tick
    \/ \E off \in Flags, dry \in Flags, time \in DryTimes, temp \in Temps,
          humidity \in TargetHumidities :
           CmdMmuHeater(off, dry, time, temp, humidity)
    \/ \E h \in HumidityReadings : CheckMmuEnvironment(h)
    \/ HandleMmuDisabled

\* the clock advances and the reactor runs a timer that is due
SpecDry ==
    /\ InitDry
    /\ [][NextDry]_vars
    /\ WF_vars(Tick)
    /\ WF_vars(\E h \in HumidityReadings : CheckMmuEnvironment(h))

\* C38 (first part): a drying cycle whose drying time has elapsed ends,
\* whatever the humidity, unless another MMU_HEATER command comes first (the
\* clock is followed up to MaxTime).
C38_EndsOnTime ==
    (dryer.drying /\ now >= dryer.drying_end_time /\ now < MaxTime)
        ~> (~dryer.drying \/ last_op.op = "MMU_HEATER")

\* C38 (second part): right after the cycle was ended by OFF=1, by TEMP=0 or
\* by the humidity goal, the heater target is 0, is_drying is false and the
\* periodic timer is cancelled.
C38_StoppedMeansOff ==
    (\/ last_op.op = "MMU_HEATER" /\ last_op.kind = "off"
     \/ last_op.op = "check_mmu_environment" /\ last_op.kind = "stopped")
    => /\ ~dryer.drying
       /\ dryer.heater_target = 0
       /\ dryer.timer = NEVER

\* C38: a drying cycle started with DRY=1 and TIME=n ends once n minutes have
\* elapsed, even if the humidity target is never reached, and a cycle ended
\* by OFF=1, TEMP=0 or the humidity goal leaves the heater target at 0 and
\* is_drying false.
C38_DryingCycleEnds == C38_EndsOnTime /\ []C38_StoppedMeansOff

====
